---- MODULE Spec2Model ----
(***************************************************************************)
(* Model of the Angular scaffold generator (generate-angular.js): the      *)
(* entity extractor, the lexical inflector, the request parser, the        *)
(* project skeleton and the per-entity generation with its optional OpenAI *)
(* call.  Strings are sequences of one-character strings so that endsWith, *)
(* slice, toLowerCase and the \b regular expressions are computed          *)
(* character by character.                                                 *)
(***************************************************************************)
EXTENDS Integers, Sequences, FiniteSets, TLC

\* ------------------------------------------------------------------ bounds
\* longest description assembled from vocabulary words
MaxWords == 3
\* longest word handed to pluralize that is built letter by letter
MaxLetters == 3

\* ------------------------------------------------------ characters, strings
LowerCase ==
  {"a","b","c","d","e","f","g","h","i","j","k","l","m",
   "n","o","p","q","r","s","t","u","v","w","x","y","z"}

UpperCase ==
  {"A","B","C","D","E","F","G","H","I","J","K","L","M",
   "N","O","P","Q","R","S","T","U","V","W","X","Y","Z"}

Digits == {"0","1","2","3","4","5","6","7","8","9"}

\* String.prototype.toLowerCase on one character
lowerOf ==
  [c \in UpperCase |->
     CASE c = "A" -> "a" [] c = "B" -> "b" [] c = "C" -> "c" [] c = "D" -> "d"
       [] c = "E" -> "e" [] c = "F" -> "f" [] c = "G" -> "g" [] c = "H" -> "h"
       [] c = "I" -> "i" [] c = "J" -> "j" [] c = "K" -> "k" [] c = "L" -> "l"
       [] c = "M" -> "m" [] c = "N" -> "n" [] c = "O" -> "o" [] c = "P" -> "p"
       [] c = "Q" -> "q" [] c = "R" -> "r" [] c = "S" -> "s" [] c = "T" -> "t"
       [] c = "U" -> "u" [] c = "V" -> "v" [] c = "W" -> "w" [] c = "X" -> "x"
       [] c = "Y" -> "y" [] c = "Z" -> "z"]

toLowerChar(c) == IF c \in UpperCase THEN lowerOf[c] ELSE c

\* String.prototype.toLowerCase
toLowerCase(str) == [i \in 1..Len(str) |-> toLowerChar(str[i])]

\* the regular-expression class \w
WordChars == LowerCase \cup UpperCase \cup Digits \cup {"_"}

WordChar(c) == c \in WordChars

\* String.prototype.endsWith with a one-character argument
endsWith(str, c) == Len(str) > 0 /\ str[Len(str)] = c

\* str.slice(0, -1)
dropLast(str) == IF Len(str) = 0 THEN str ELSE SubSeq(str, 1, Len(str) - 1)

\* Array.prototype.includes
includes(arr, x) == \E i \in 1..Len(arr) : arr[i] = x

\* the white space of a text: the blank and the line feed
Whitespace == {" ", "NL"}

RECURSIVE trimStart(_)
trimStart(text) ==
  IF Len(text) > 0 /\ Head(text) \in Whitespace THEN trimStart(Tail(text)) ELSE text

RECURSIVE trimEnd(_)
trimEnd(text) ==
  IF Len(text) > 0 /\ text[Len(text)] \in Whitespace
  THEN trimEnd(SubSeq(text, 1, Len(text) - 1))
  ELSE text

\* String.prototype.trim
trim(text) == trimEnd(trimStart(text))

\* mutation of sliceFirst: the cap is forgotten
sliceFirstNoCap(arr, n) == arr

\* arr.slice(0, n)
sliceFirst(arr, n) == IF Len(arr) <= n THEN arr ELSE SubSeq(arr, 1, n)

\* ----------------------------------------------------------- entity lexicon
\* the string literals of the lexicon and of the default entity

Str ==
  [ user |-> <<"u","s","e","r">>,
    account |-> <<"a","c","c","o","u","n","t">>,
    profile |-> <<"p","r","o","f","i","l","e">>,
    member |-> <<"m","e","m","b","e","r">>,
    product |-> <<"p","r","o","d","u","c","t">>,
    item |-> <<"i","t","e","m">>,
    goods |-> <<"g","o","o","d","s">>,
    merchandise |-> <<"m","e","r","c","h","a","n","d","i","s","e">>,
    order |-> <<"o","r","d","e","r">>,
    purchase |-> <<"p","u","r","c","h","a","s","e">>,
    transaction |-> <<"t","r","a","n","s","a","c","t","i","o","n">>,
    post |-> <<"p","o","s","t">>,
    article |-> <<"a","r","t","i","c","l","e">>,
    blog |-> <<"b","l","o","g">>,
    comment |-> <<"c","o","m","m","e","n","t">>,
    review |-> <<"r","e","v","i","e","w">>,
    feedback |-> <<"f","e","e","d","b","a","c","k">>,
    task |-> <<"t","a","s","k">>,
    todo |-> <<"t","o","d","o">>,
    assignment |-> <<"a","s","s","i","g","n","m","e","n","t">>,
    job |-> <<"j","o","b">>,
    project |-> <<"p","r","o","j","e","c","t">>,
    workspace |-> <<"w","o","r","k","s","p","a","c","e">>,
    customer |-> <<"c","u","s","t","o","m","e","r">>,
    client |-> <<"c","l","i","e","n","t">>,
    invoice |-> <<"i","n","v","o","i","c","e">>,
    bill |-> <<"b","i","l","l">>,
    receipt |-> <<"r","e","c","e","i","p","t">>,
    payment |-> <<"p","a","y","m","e","n","t">>,
    booking |-> <<"b","o","o","k","i","n","g">>,
    reservation |-> <<"r","e","s","e","r","v","a","t","i","o","n">>,
    appointment |-> <<"a","p","p","o","i","n","t","m","e","n","t">>,
    event |-> <<"e","v","e","n","t">>,
    meeting |-> <<"m","e","e","t","i","n","g">>,
    conference |-> <<"c","o","n","f","e","r","e","n","c","e">>,
    category |-> <<"c","a","t","e","g","o","r","y">>,
    tag |-> <<"t","a","g">>,
    label |-> <<"l","a","b","e","l">>,
    message |-> <<"m","e","s","s","a","g","e">>,
    chat |-> <<"c","h","a","t">>,
    conversation |-> <<"c","o","n","v","e","r","s","a","t","i","o","n">>,
    notification |-> <<"n","o","t","i","f","i","c","a","t","i","o","n">>,
    alert |-> <<"a","l","e","r","t">>,
    report |-> <<"r","e","p","o","r","t">>,
    analytics |-> <<"a","n","a","l","y","t","i","c","s">>,
    statistics |-> <<"s","t","a","t","i","s","t","i","c","s">>,
    document |-> <<"d","o","c","u","m","e","n","t">>,
    file |-> <<"f","i","l","e">>,
    attachment |-> <<"a","t","t","a","c","h","m","e","n","t">>,
    inventory |-> <<"i","n","v","e","n","t","o","r","y">>,
    stock |-> <<"s","t","o","c","k">>,
    warehouse |-> <<"w","a","r","e","h","o","u","s","e">>,
    employee |-> <<"e","m","p","l","o","y","e","e">>,
    staff |-> <<"s","t","a","f","f">>,
    worker |-> <<"w","o","r","k","e","r">>,
    department |-> <<"d","e","p","a","r","t","m","e","n","t">>,
    division |-> <<"d","i","v","i","s","i","o","n">>,
    team |-> <<"t","e","a","m">> ]

entityKeywords ==
  << [name |-> Str.user, keywords |-> <<Str.user, Str.account, Str.profile, Str.member>>],
     [name |-> Str.product, keywords |-> <<Str.product, Str.item, Str.goods, Str.merchandise>>],
     [name |-> Str.order, keywords |-> <<Str.order, Str.purchase, Str.transaction>>],
     [name |-> Str.post, keywords |-> <<Str.post, Str.article, Str.blog>>],
     [name |-> Str.comment, keywords |-> <<Str.comment, Str.review, Str.feedback>>],
     [name |-> Str.task, keywords |-> <<Str.task, Str.todo, Str.assignment, Str.job>>],
     [name |-> Str.project, keywords |-> <<Str.project, Str.workspace>>],
     [name |-> Str.customer, keywords |-> <<Str.customer, Str.client>>],
     [name |-> Str.invoice, keywords |-> <<Str.invoice, Str.bill, Str.receipt>>],
     [name |-> Str.payment, keywords |-> <<Str.payment, Str.transaction>>],
     [name |-> Str.booking, keywords |-> <<Str.booking, Str.reservation, Str.appointment>>],
     [name |-> Str.event, keywords |-> <<Str.event, Str.meeting, Str.conference>>],
     [name |-> Str.category, keywords |-> <<Str.category, Str.tag, Str.label>>],
     [name |-> Str.message, keywords |-> <<Str.message, Str.chat, Str.conversation>>],
     [name |-> Str.notification, keywords |-> <<Str.notification, Str.alert>>],
     [name |-> Str.report, keywords |-> <<Str.report, Str.analytics, Str.statistics>>],
     [name |-> Str.document, keywords |-> <<Str.document, Str.file, Str.attachment>>],
     [name |-> Str.inventory, keywords |-> <<Str.inventory, Str.stock, Str.warehouse>>],
     [name |-> Str.employee, keywords |-> <<Str.employee, Str.staff, Str.worker>>],
     [name |-> Str.department, keywords |-> <<Str.department, Str.division, Str.team>>] >>


\* ------------------------------------------------------------------- inputs
\* words a description is assembled from: plural and upper-case forms, words
\* that only contain a keyword, a keyword shared by two entities, words with
\* punctuation, words matching nothing
Word ==
  [ Users |-> <<"U","s","e","r","s">>,
    username |-> <<"u","s","e","r","n","a","m","e">>,
    transaction |-> <<"t","r","a","n","s","a","c","t","i","o","n">>,
    categories |-> <<"c","a","t","e","g","o","r","i","e","s">>,
    categorys |-> <<"c","a","t","e","g","o","r","y","s">>,
    item |-> <<"i","t","e","m">>,
    stuff |-> <<"s","t","u","f","f">>,
    TEAM |-> <<"T","E","A","M">> ]

Vocabulary ==
  { Word.Users, Word.username, Word.transaction, Word.categories, Word.categorys, Word.item, Word.stuff, Word.TEAM }

\* the descriptions of the documented generation runs, cut into phrases
Phrase ==
  [ blog1 |-> <<"A"," ","b","l","o","g"," ","p","l","a","t","f","o","r","m"," ","w","i","t","h">>,
    posts |-> <<"p","o","s","t","s",",">>,
    comments |-> <<"c","o","m","m","e","n","t","s",",">>,
    and |-> <<"a","n","d">>,
    userProfiles |-> <<"u","s","e","r"," ","p","r","o","f","i","l","e","s">>,
    shop1 |-> <<"A","n"," ","e","-","c","o","m","m","e","r","c","e"," ","A","P","I"," ","w","i","t","h">>,
    products |-> <<"p","r","o","d","u","c","t","s",",">>,
    orders |-> <<"o","r","d","e","r","s",",">>,
    customerManagement |-> <<"c","u","s","t","o","m","e","r"," ","m","a","n","a","g","e","m","e","n","t">>,
    user_1 |-> <<"u","s","e","r","_","1">>,
    goodss |-> <<"g","o","o","d","s","s">>,
    blogPost |-> <<"b","l","o","g","-","p","o","s","t">>,
    clients |-> <<"c","l","i","e","n","t","'","s">>,
    Inventory |-> <<"I","N","V","E","N","T","O","R","Y",".">>,
    taskManagement |-> <<"A"," ","t","a","s","k"," ","m","a","n","a","g","e","m","e","n","t"," ","a","p","p","l","i","c","a","t","i","o","n"," ","w","i","t","h"," ","p","r","o","j","e","c","t","s",","," ","t","a","s","k","s",","," ","a","n","d"," ","t","e","a","m"," ","c","o","l","l","a","b","o","r","a","t","i","o","n","."," ","U","s","e","r","s"," ","c","a","n"," ","c","r","e","a","t","e"," ","p","r","o","j","e","c","t","s",","," ","a","s","s","i","g","n"," ","t","a","s","k","s",","," ","a","n","d"," ","t","r","a","c","k"," ","p","r","o","g","r","e","s","s",".">> ]

BlogPhrases ==
  <<Phrase.blog1, Phrase.posts, Phrase.comments, Phrase.and, Phrase.userProfiles>>

ShopPhrases ==
  <<Phrase.shop1, Phrase.products, Phrase.orders, Phrase.and, Phrase.customerManagement>>

TaskPhrases == <<Phrase.taskManagement>>

\* words next to an underscore, a hyphen, an apostrophe and a full stop
EdgePhrases ==
  <<Phrase.user_1, Phrase.goodss, Phrase.blogPost, Phrase.clients, Phrase.Inventory>>


\* nouns handed to pluralize besides the entity names, and expected plurals
Noun ==
  [ business |-> <<"b","u","s","i","n","e","s","s">>,
    categories |-> <<"c","a","t","e","g","o","r","i","e","s">>,
    inventories |-> <<"i","n","v","e","n","t","o","r","i","e","s">>,
    users |-> <<"u","s","e","r","s">> ]

\* the letters short inputs of pluralize are built from: both special
\* endings and an ordinary one
EndingLetters == {"y", "s", "m"}

\* sequences of at most n elements of S
SeqsUpTo(S, n) == UNION {[1..k -> S] : k \in 0..n}

WordLists == SeqsUpTo(Vocabulary, MaxWords) \cup {BlogPhrases, ShopPhrases, TaskPhrases, EdgePhrases}

\* the words joined by single blanks
RECURSIVE JoinWords(_)
JoinWords(ws) ==
  IF Len(ws) = 0 THEN <<>>
  ELSE IF Len(ws) = 1 THEN ws[1]
  ELSE ws[1] \o <<" ">> \o JoinWords(Tail(ws))

\* ------------------------------------------------------------------- state
VARIABLES
  words,        \* the phrases the description was assembled from
  description,  \* argument of extractEntitiesFromDescription
  entities,     \* its return value
  exPc          \* "input" before the call, "extracted" after it

exVars == <<words, description, entities, exPc>>

VARIABLES
  plWord,       \* argument of pluralize
  plOnce,       \* pluralize(plWord)
  plTwice,      \* pluralize(pluralize(plWord))
  plPc          \* "input", then "once", then "twice"

plVars == <<plWord, plOnce, plTwice, plPc>>

VARIABLES
  sections,     \* the sections the request text was assembled from
  issueBody,    \* metadata.issue_body, the argument of parseIssueBody
  parsed,       \* its return value
  paPc          \* "input" before the call, "parsed" after it

paVars == <<sections, issueBody, parsed, paPc>>

VARIABLES
  OPENAI_AVAILABLE,  \* require('openai') succeeded at module load
  env,               \* process.env: OPENAI_API_KEY, OPENAI_ENDPOINT, OPENAI_MODEL
  config,            \* config.description (absent: <<>>) and config.entities
  runPc,             \* position of the run in generateAngularProject
  entityIdx,         \* index of the entity the for-of loop is at
  aiPc,              \* position inside generateCodeWithAI
  aiArgs,            \* arguments of the generateCodeWithAI call in progress
  aiResult,          \* its return value: <<>> for null, <<text>> for a string
  aiRaised,          \* what was raised inside its try block, <<>> if nothing
  clients,           \* number of OpenAI clients constructed
  requests,          \* the requests sent to the service, in order
  files,             \* the files written: path |-> content
  thrown,            \* exception that escaped into generateEntityFeature
  aiLog,             \* the generateCodeWithAI calls of the run, in call order
  projectName,       \* process.argv[2]
  referenceImages,   \* result of findReferenceImages: basename, readable or not
  dirs,              \* the directories that exist at or below the output directory
  argv,              \* process.argv.length
  metadataFile,      \* what process.argv[3] names: "issue_body", "no issue_body",
                     \* "not JSON" or "unreadable"
  root,              \* the output directory before the run: "empty", "stale"
                     \* or "generated"
  fsFault,           \* the call the file system refuses: <<>> or <<[kind, target]>>
  exitCode           \* <<>> while the process runs, then its exit status

runVars == <<OPENAI_AVAILABLE, env, config, runPc, entityIdx, aiPc, aiArgs,
             aiResult, aiRaised, clients, requests, files, thrown, aiLog,
             projectName, referenceImages, dirs, argv, metadataFile, root,
             fsFault, exitCode>>

VARIABLES
  project,        \* the target directory of modify-angular.js: dirs and files
  projectBefore,  \* the same tree when the process was started
  modArgv,        \* process.argv.length of the modify-angular.js process
  modifications,  \* what process.argv[2] holds: <<>> when it is not readable
                  \* JSON, else <<the parsed modifications>>
  modPc,          \* "idle", "main" while the process runs, "exited" after it
  modExit,        \* <<>> while the process runs, then its exit status
  modError,       \* the exception raised in the process, <<>> if none
  modWritten,     \* the paths the process wrote, in call order
  modCalls        \* number of modify-angular.js processes started so far

moVars == <<project, projectBefore, modArgv, modifications, modPc, modExit,
            modError, modWritten, modCalls>>

VARIABLES
  mrParts,      \* the parts the modification request text was assembled from
  mrBody,       \* metadata.issue_body, the argument of parseModificationRequest
  mrResult,     \* its return value, <<>> before the call
  mrPc          \* "input" before the call, "parsed" after it

mrVars == <<mrParts, mrBody, mrResult, mrPc>>

\* what a run is started with
inVars == <<projectName, referenceImages, argv, metadataFile, root, fsFault>>

vars == <<exVars, plVars, paVars, runVars, moVars, mrVars>>

\* --------------------------------------------------------- entity extractor
\* \b at position i of text: between text[i-1] and text[i]
WordBoundary(text, i) ==
  LET before == i > 1 /\ i - 1 <= Len(text) /\ WordChar(text[i - 1])
      after  == i >= 1 /\ i <= Len(text) /\ WordChar(text[i])
  IN  before # after

\* mutation of KeywordForms: the plural forms are not accepted
KeywordFormsSingular(keyword) == {keyword}

\* the alternatives of the pattern built for one keyword
KeywordForms(keyword) ==
  IF endsWith(keyword, "y")
  THEN {dropLast(keyword) \o <<"y">>, dropLast(keyword) \o <<"i","e","s">>}
  ELSE {keyword, keyword \o <<"s">>}

\* mutation of MatchesAt: the pattern is built without the two \b
MatchesAtAnywhere(form, text, i) ==
  /\ i + Len(form) - 1 <= Len(text)
  /\ \A j \in 1..Len(form) : toLowerChar(text[i + j - 1]) = toLowerChar(form[j])

\* one alternative of /\b...\b/i matches text at position i
MatchesAt(form, text, i) ==
  /\ i + Len(form) - 1 <= Len(text)
  /\ \A j \in 1..Len(form) : toLowerChar(text[i + j - 1]) = toLowerChar(form[j])
  /\ WordBoundary(text, i)
  /\ WordBoundary(text, i + Len(form))

\* pattern.test(text) for the pattern of one keyword
PatternTest(keyword, text) ==
  \E form \in KeywordForms(keyword) :
    \E i \in 1..Len(text) : MatchesAt(form, text, i)

\* the inner loop: some keyword of the entity matches (break on the first)
AnyKeywordMatches(keywords, text) ==
  \E k \in 1..Len(keywords) : PatternTest(keywords[k], text)

\* mutation of ScanLexicon: the matched keyword is recorded, not the entity
RECURSIVE ScanLexiconRawKeyword(_, _, _)
ScanLexiconRawKeyword(n, text, found) ==
  IF n > Len(entityKeywords) THEN found
  ELSE LET kws == entityKeywords[n].keywords
           hit == {k \in 1..Len(kws) : PatternTest(kws[k], text)}
           first == CHOOSE k \in hit : \A m \in hit : k <= m
       IN  ScanLexiconRawKeyword(n + 1, text,
             IF hit # {} /\ ~includes(found, kws[first])
             THEN Append(found, kws[first])
             ELSE found)

\* mutation of ScanLexicon: a new entity is put in front (unshift for push)
RECURSIVE ScanLexiconUnshift(_, _, _)
ScanLexiconUnshift(n, text, found) ==
  IF n > Len(entityKeywords) THEN found
  ELSE ScanLexiconUnshift(n + 1, text,
         IF AnyKeywordMatches(entityKeywords[n].keywords, text)
            /\ ~includes(found, entityKeywords[n].name)
         THEN <<entityKeywords[n].name>> \o found
         ELSE found)

\* the outer loop over Object.entries(entityKeywords), from entry n on
RECURSIVE ScanLexicon(_, _, _)
ScanLexicon(n, text, found) ==
  IF n > Len(entityKeywords) THEN found
  ELSE ScanLexicon(n + 1, text,
         IF AnyKeywordMatches(entityKeywords[n].keywords, text)
            /\ ~includes(found, entityKeywords[n].name)
         THEN Append(found, entityKeywords[n].name)
         ELSE found)

\* mutation of extractEntitiesFromDescription: no default entity
extractWithoutDefault(desc) ==
  sliceFirst(ScanLexicon(1, toLowerCase(desc), <<>>), 3)

extractEntitiesFromDescription(desc) ==
  LET descriptionLower == toLowerCase(desc)
      found == ScanLexicon(1, descriptionLower, <<>>)
      withDefault == IF Len(found) = 0 THEN <<Str.item>> ELSE found
  IN  sliceFirst(withDefault, 3)

ExtractIdle ==
  /\ words = <<>>
  /\ description = <<>>
  /\ entities = <<>>
  /\ exPc = "idle"

InflectIdle ==
  /\ plWord = <<>>
  /\ plOnce = <<>>
  /\ plTwice = <<>>
  /\ plPc = "idle"

ParseIdle ==
  /\ sections = <<>>
  /\ issueBody = <<>>
  /\ parsed = <<>>
  /\ paPc = "idle"

RunIdle ==
  /\ OPENAI_AVAILABLE = FALSE
  /\ env = [OPENAI_API_KEY |-> <<>>, OPENAI_ENDPOINT |-> <<>>, OPENAI_MODEL |-> <<>>]
  /\ config = [description |-> <<>>, entities |-> <<>>]
  /\ runPc = "idle"
  /\ entityIdx = 0
  /\ aiPc = "idle"
  /\ aiArgs = <<>>
  /\ aiResult = <<>>
  /\ aiRaised = <<>>
  /\ clients = 0
  /\ requests = <<>>
  /\ files = <<>>
  /\ thrown = <<>>
  /\ aiLog = <<>>
  /\ projectName = ""
  /\ referenceImages = <<>>
  /\ dirs = {}
  /\ argv = 0
  /\ metadataFile = ""
  /\ root = ""
  /\ fsFault = <<>>
  /\ exitCode = <<>>

ModifyIdle ==
  /\ project = [dirs |-> {}, files |-> <<>>]
  /\ projectBefore = [dirs |-> {}, files |-> <<>>]
  /\ modArgv = 0
  /\ modifications = <<>>
  /\ modPc = "idle"
  /\ modExit = <<>>
  /\ modError = <<>>
  /\ modWritten = <<>>
  /\ modCalls = 0

RequestIdle ==
  /\ mrParts = <<>>
  /\ mrBody = <<>>
  /\ mrResult = <<>>
  /\ mrPc = "idle"

InitExtract ==
  /\ ModifyIdle
  /\ RequestIdle
  /\ InflectIdle
  /\ ParseIdle
  /\ RunIdle
  /\ words \in WordLists
  /\ description = JoinWords(words)
  /\ entities = <<>>
  /\ exPc = "input"

Extract ==
  /\ exPc = "input"
  /\ entities' = extractEntitiesFromDescription(description)
  /\ exPc' = "extracted"
  /\ UNCHANGED <<words, description>>
  /\ UNCHANGED <<plVars, paVars, runVars, moVars, mrVars>>

NextExtract == Extract

SpecExtract == InitExtract /\ [][NextExtract]_vars

\* -------------------------------------------------------- lexical inflector
\* String.prototype.toUpperCase on one character
toUpperChar(c) ==
  IF c \in LowerCase THEN CHOOSE u \in UpperCase : lowerOf[u] = c ELSE c

capitalize(str) ==
  IF Len(str) = 0 THEN str ELSE <<toUpperChar(str[1])>> \o Tail(str)

\* mutation of pluralize: "s" is appended whatever the ending
pluralizeNaive(entity) == entity \o <<"s">>

\* mutation of pluralize: the branch for a trailing "s" is missing
pluralizeNoSBranch(entity) ==
  IF endsWith(entity, "y") THEN dropLast(entity) \o <<"i","e","s">>
  ELSE entity \o <<"s">>

pluralize(entity) ==
  IF endsWith(entity, "y") THEN dropLast(entity) \o <<"i","e","s">>
  ELSE IF endsWith(entity, "s") THEN entity
  ELSE entity \o <<"s">>

PluralizeInputs ==
  {entityKeywords[n].name : n \in 1..Len(entityKeywords)}
    \cup {Str.item, Noun.business, Noun.categories}
    \cup SeqsUpTo(EndingLetters, MaxLetters)

InitPluralize ==
  /\ ModifyIdle
  /\ RequestIdle
  /\ ExtractIdle
  /\ ParseIdle
  /\ RunIdle
  /\ plWord \in PluralizeInputs
  /\ plOnce = <<>>
  /\ plTwice = <<>>
  /\ plPc = "input"

Pluralize ==
  /\ plPc = "input"
  /\ plOnce' = pluralize(plWord)
  /\ plPc' = "once"
  /\ UNCHANGED <<plWord, plTwice>>
  /\ UNCHANGED <<exVars, paVars, runVars, moVars, mrVars>>

PluralizeAgain ==
  /\ plPc = "once"
  /\ plTwice' = pluralize(plOnce)
  /\ plPc' = "twice"
  /\ UNCHANGED <<plWord, plOnce>>
  /\ UNCHANGED <<exVars, paVars, runVars, moVars, mrVars>>

NextPluralize == Pluralize \/ PluralizeAgain

SpecPluralize == InitPluralize /\ [][NextPluralize]_vars

\* ============================================================ request parser
\* A request text is a sequence whose elements are single characters, the
\* line feed "NL", and the literals the parser searches for, each taken as
\* one element.
Heading ==
  [version      |-> "### Angular Version",
   styling      |-> "### Styling Framework",
   architecture |-> "### Project Structure",
   description  |-> "### Project Description"]

Fields == DOMAIN Heading

\* the defaults parseIssueBody starts from
DefaultConfig ==
  [styling      |-> <<"CSS">>,
   version      |-> <<"Angular", " ", "17", " ", "(Latest)">>,
   architecture |-> <<"Standalone", " ", "Components">>]

\* the feature names, in the order of the includes tests
FeatureVocabulary ==
  << [label |-> "Routing",          name |-> "routing"],
     [label |-> "State Management", name |-> "ngrx"],
     [label |-> "HTTP Client",      name |-> "http"],
     [label |-> "Forms",            name |-> "forms"],
     [label |-> "Authentication",   name |-> "auth"],
     [label |-> "Unit Tests",       name |-> "tests"],
     [label |-> "E2E Tests",        name |-> "e2e"],
     [label |-> "Docker",           name |-> "docker"],
     [label |-> "PWA",              name |-> "pwa"] >>

\* String.prototype.includes
includesText(text, pattern) ==
  \E i \in 1..(Len(text) - Len(pattern) + 1) :
    SubSeq(text, i, i + Len(pattern) - 1) = pattern

\* the first position after i that holds no white space, Len + 1 if none
SpaceRunEnd(text, i) ==
  IF \E j \in (i + 1)..Len(text) : text[j] \notin Whitespace
  THEN CHOOSE j \in (i + 1)..Len(text) :
         /\ text[j] \notin Whitespace
         /\ \A k \in (i + 1)..(j - 1) : text[k] \in Whitespace
  ELSE Len(text) + 1

\* the last position of the line that position j lies on
LineEnd(text, j) ==
  IF \E k \in j..Len(text) : text[k] = "NL"
  THEN (CHOOSE k \in j..Len(text) :
          text[k] = "NL" /\ \A l \in j..(k - 1) : text[l] # "NL") - 1
  ELSE Len(text)

\* /<heading>\s*\n\s*(.+)/ tried with the heading at position i: the
\* capture group in a one-element sequence, <<>> when there is no match.
\* The white space after the heading must hold a line feed; the group is
\* the rest of the line of the first character after that white space.
\* When the white space runs to the end of the text, the group can only be
\* a blank: the last one that has a line feed somewhere in front of it.
MatchHeadingAt(text, i) ==
  LET j == SpaceRunEnd(text, i)
      blanks == {m \in (i + 1)..Len(text) :
                   /\ text[m] # "NL"
                   /\ \E k \in (i + 1)..(m - 1) : text[k] = "NL"}
  IN IF j <= Len(text)
     THEN IF \E k \in (i + 1)..(j - 1) : text[k] = "NL"
          THEN <<SubSeq(text, j, LineEnd(text, j))>>
          ELSE <<>>
     ELSE IF blanks = {} THEN <<>>
          ELSE << <<text[CHOOSE m \in blanks : \A n \in blanks : n <= m]>> >>

\* issueBody.match(/<heading>\s*\n\s*(.+)/): the leftmost match
matchHeading(text, heading) ==
  LET at == {i \in 1..Len(text) :
               text[i] = heading /\ MatchHeadingAt(text, i) # <<>>}
  IN IF at = {} THEN <<>>
     ELSE MatchHeadingAt(text, CHOOSE i \in at : \A k \in at : i <= k)

\* the two includes tests of one feature
Checked(text, label) ==
  \/ includesText(text, <<"- [X] ", label>>)
  \/ includesText(text, <<"- [x] ", label>>)

\* config.<field> for version, styling and architecture: the trimmed group
\* of the match, the default without a match
FieldValue(text, field) ==
  LET fieldMatch == matchHeading(text, Heading[field])
  IN IF fieldMatch # <<>> THEN trim(fieldMatch[1]) ELSE DefaultConfig[field]

\* mutation of FeaturesOf: a feature is pushed once for each of its two tests
FeaturesOfTwice(text) ==
  LET pushes == [n \in 1..(2 * Len(FeatureVocabulary)) |->
                   [label |-> FeatureVocabulary[(n + 1) \div 2].label,
                    name  |-> FeatureVocabulary[(n + 1) \div 2].name,
                    mark  |-> IF n % 2 = 1 THEN "- [X] " ELSE "- [x] "]]
      found == SelectSeq(pushes, LAMBDA f : includesText(text, <<f.mark, f.label>>))
  IN [n \in 1..Len(found) |-> found[n].name]

\* config.features: one push for each feature found, in vocabulary order
FeaturesOf(text) ==
  LET found == SelectSeq(FeatureVocabulary, LAMBDA f : Checked(text, f.label))
  IN [n \in 1..Len(found) |-> found[n].name]

parseIssueBody(text) ==
  LET descMatch == matchHeading(text, Heading.description)
  IN [features     |-> FeaturesOf(text),
      styling      |-> FieldValue(text, "styling"),
      version      |-> FieldValue(text, "version"),
      architecture |-> FieldValue(text, "architecture"),
      description  |-> IF descMatch # <<>> THEN <<trim(descMatch[1])>> ELSE <<>>]

\* ------------------------------------------------- inputs of parseIssueBody
\* most sections a request text is assembled from
MaxSections == 3

\* the bold-label form of a field, as request texts of the other kind write it
BoldLabel ==
  [version      |-> "**Angular Version:**",
   styling      |-> "**Styling Framework:**",
   architecture |-> "**Project Structure:**",
   description  |-> "**Project Description:**"]

\* the sections of the issue form: a heading that parseIssueBody does not
\* look for, the four fields it reads, and the checkbox list
SectionChoices ==
  { [field |-> "name", form |-> "heading", value |-> <<"d", "e", "m", "o">>],
    [field |-> "version", form |-> "heading", value |-> <<"Angular", " ", "16">>],
    [field |-> "styling", form |-> "heading", value |-> <<"SCSS">>],
    [field |-> "styling", form |-> "bold", value |-> <<"SCSS">>],
    [field |-> "architecture", form |-> "heading", value |-> <<"Module-based">>],
    [field |-> "description", form |-> "heading",
     value |-> Word.Users \o <<" ">> \o Word.categories],
    [field |-> "description", form |-> "bold",
     value |-> Word.Users \o <<" ">> \o Word.categories],
    [field |-> "features", form |-> "checkboxes",
     value |-> <<"- [X] ", "Routing", "NL", "- [ ] ", "State Management", "NL",
                 "- [x] ", "Forms", " ", "(Reactive)", "NL",
                 "- [X] ", "Analytics">>],
    [field |-> "features", form |-> "checkboxes",
     value |-> <<"- [x] ", "PWA", "NL", "- [X] ", "Docker", "NL",
                 "- [x] ", "Docker", "NL", "- [ ] ", "Routing">>] }

\* one section as the issue form renders it
RenderSection(section) ==
  IF section.form = "bold"
  THEN <<BoldLabel[section.field], " ">> \o section.value
  ELSE <<IF section.field = "features" THEN "### Additional Features"
         ELSE IF section.field = "name" THEN "### Project Name"
         ELSE Heading[section.field],
         "NL", "NL">> \o section.value

\* the sections with an empty line between them
RECURSIVE RenderSections(_)
RenderSections(list) ==
  IF Len(list) = 0 THEN <<>>
  ELSE IF Len(list) = 1 THEN RenderSection(list[1])
  ELSE RenderSection(list[1]) \o <<"NL", "NL">> \o RenderSections(Tail(list))

\* lists of sections with no field given twice
SectionLists ==
  {list \in SeqsUpTo(SectionChoices, MaxSections) :
     \A i, j \in 1..Len(list) : i # j => list[i].field # list[j].field}

InitParse ==
  /\ ModifyIdle
  /\ RequestIdle
  /\ ExtractIdle
  /\ InflectIdle
  /\ RunIdle
  /\ sections \in SectionLists
  /\ issueBody = RenderSections(sections)
  /\ parsed = <<>>
  /\ paPc = "input"

ParseIssueBody ==
  /\ paPc = "input"
  /\ parsed' = parseIssueBody(issueBody)
  /\ paPc' = "parsed"
  /\ UNCHANGED <<sections, issueBody>>
  /\ UNCHANGED <<exVars, plVars, runVars, moVars, mrVars>>

NextParse == ParseIssueBody

SpecParse == InitParse /\ [][NextParse]_vars

\* ============================================================ generation run
\* ---------------------------------------------------------- inputs of a run
\* config.description as parseIssueBody leaves it: absent, empty, or a text
\* with no match, one matched word giving two entities, or two matched words
RunDescriptions ==
  { <<>>,
    <<<<>>>>,
    <<Word.categorys>>,
    <<Word.transaction>>,
    <<JoinWords(<<Word.Users, Word.categories>>)>> }

\* the text in front of the description section: styling and checkbox list
Preamble ==
  <<Heading.styling, "NL", "NL", "SCSS", "NL", "NL",
    "### Additional Features", "NL", "NL",
    "- [X] ", "Routing", "NL", "- [x] ", "Forms", " ", "(Reactive)">>

\* a request text that parses to the given description: no description
\* section, a heading followed by a blank line only, or a heading, an empty
\* line and the text
BodyWith(pre, d) ==
  IF d = <<>> THEN pre
  ELSE IF d[1] = <<>> THEN pre \o <<"NL", "NL", Heading.description, "NL", " ">>
  ELSE pre \o <<"NL", "NL", Heading.description, "NL", "NL">> \o d[1]

BodyOf(d) == BodyWith(Preamble, d)

RunBodies == {BodyOf(d) : d \in RunDescriptions}

\* the same with another version, styling and project structure selected
ModulePreamble ==
  <<Heading.version, "NL", "NL", "Angular", " ", "16", "NL", "NL",
    Heading.styling, "NL", "NL", "Tailwind", " ", "CSS", "NL", "NL",
    Heading.architecture, "NL", "NL", "Feature", " ", "Modules", "NL", "NL",
    "### Additional Features", "NL", "NL",
    "- [X] ", "Routing", "NL", "- [x] ", "Forms", " ", "(Reactive)">>

ModuleBodies == {BodyWith(ModulePreamble, d) : d \in RunDescriptions}

ProjectNames == {"demo", "audit-trail"}

\* no reference image, or two of which the second cannot be read
ReferenceImageLists ==
  { <<>>,
    <<[basename |-> "ui.png", readable |-> TRUE],
      [basename |-> "mockup.svg", readable |-> FALSE]>> }

\* values of an environment variable: unset, empty, set
ApiKeys == {<<>>, <<"">>, <<"sk-test">>}

Endpoints == {<<>>, <<"https://example.openai.azure.com">>}

Models == {<<>>, <<"gpt-4o">>}

\* texts the service may answer with, as sequences of pieces; "[fence]" is
\* the markdown code fence of three backquotes, "NL" a line feed
AITexts ==
  { <<"[fence]typescript", "NL", "code", "NL", "[fence]", "NL">>,
    <<" ", "NL">> }

\* what may come of an awaited request: a rejection, or a response without
\* choices, with a null content, or with a text
ServiceOutcomes ==
  {[kind |-> "reject", error |-> e, choices |-> <<>>] :
     e \in {"request timed out", "401 incorrect API key"}}
    \cup {[kind |-> "resolve", error |-> "", choices |-> <<>>]}
    \cup {[kind |-> "resolve", error |-> "", choices |-> <<[content |-> <<>>]>>]}
    \cup {[kind |-> "resolve", error |-> "", choices |-> <<[content |-> <<t>>]>>] :
            t \in AITexts}

\* ------------------------------------------------------------- file system
FeaturePath(entityPlural, sub, entityName, suffix) ==
  [dir |-> "src/app/features", feature |-> entityPlural, sub |-> sub,
   entity |-> entityName, suffix |-> suffix]

InterfacePath(entityName) ==
  [dir |-> "src/app/core/interfaces", feature |-> <<>>, sub |-> "",
   entity |-> entityName, suffix |-> ".interface.ts"]

\* mutation of writeFileSync: a file that exists is left as it is
writeFileSyncKeep(fs, path, content) == fs @@ (path :> content)

\* fs.writeFileSync(path, content): creates the file or overwrites it
writeFileSync(fs, path, content) == (path :> content) @@ fs

\* the plural forms of the entity that the template literal of one file
\* interpolates, each with the place it is put in
EmittedPlurals(of, entityName) ==
  IF of = "component"
  THEN {[place |-> "array property", form |-> pluralize(entityName)],
        [place |-> "error message", form |-> pluralize(entityName)],
        [place |-> "method name load", form |-> capitalize(entityName) \o <<"s">>]}
  ELSE IF of = "service"
  THEN {[place |-> "API URL segment", form |-> pluralize(entityName)]}
  ELSE IF of = "html"
  THEN {[place |-> "CSS class of the grid", form |-> pluralize(entityName)],
        [place |-> "ngFor collection", form |-> pluralize(entityName)]}
  ELSE IF of = "scss"
  THEN {[place |-> "CSS class of the grid", form |-> pluralize(entityName)]}
  ELSE {}

\* the standalone flag a template literal carries: that of the @Component
\* decorator of a component, that of the schematics of angular.json, or none
StandaloneOf(of) ==
  IF of \in {"angular.json", "app.component.ts", "layout.component.ts",
             "header.component.ts", "footer.component.ts", "home.component.ts",
             "component"}
  THEN <<FALSE>>
  ELSE <<>>

\* the relative imports of the component and of the service template: the
\* number of leading ../, the directories named after them, and the file
TemplateImports(of, entityName) ==
  IF of = "component"
  THEN {[names |-> "service", up |-> 2, down |-> "services",
         entity |-> entityName, suffix |-> ".service.ts"],
        [names |-> "interface", up |-> 3, down |-> "core/interfaces",
         entity |-> entityName, suffix |-> ".interface.ts"]}
  ELSE IF of = "service"
  THEN {[names |-> "environment", up |-> 3, down |-> "environments",
         entity |-> <<>>, suffix |-> "environment.ts"],
        [names |-> "interface", up |-> 2, down |-> "core/interfaces",
         entity |-> entityName, suffix |-> ".interface.ts"]}
  ELSE {}

\* a template literal expanded for one entity
Template(of, entityName) ==
  [origin |-> "template", of |-> of, entityName |-> entityName,
   entityClass |-> capitalize(entityName),
   entityPlural |-> pluralize(entityName), text |-> <<>>,
   plurals |-> EmittedPlurals(of, entityName),
   standalone |-> StandaloneOf(of),
   imports |-> TemplateImports(of, entityName)]

\* text returned by the service, after the clean-up of the code fences
Generated(of, entityName, cleanCode) ==
  [origin |-> "ai", of |-> of, entityName |-> entityName,
   entityClass |-> capitalize(entityName),
   entityPlural |-> pluralize(entityName), text |-> cleanCode]

\* ------------------------------------------------------- generateCodeWithAI
\* JavaScript truthiness of an optional string: neither undefined nor empty
Truthy(opt) == opt # <<>> /\ opt[1] # ""

\* the same for an optional text
TruthyText(opt) == opt # <<>> /\ Len(opt[1]) > 0

\* text.replace(/<fence>\n?/g, ""): every fence and a line feed after it
RECURSIVE removeFence(_, _)
removeFence(text, fence) ==
  IF Len(text) = 0 THEN text
  ELSE IF Head(text) = fence
       THEN IF Len(text) > 1 /\ text[2] = "NL"
            THEN removeFence(Tail(Tail(text)), fence)
            ELSE removeFence(Tail(text), fence)
       ELSE <<Head(text)>> \o removeFence(Tail(text), fence)

cleanCode(aiCode) == removeFence(removeFence(aiCode, "[fence]typescript"), "[fence]")

\* the promise of the call in progress settles with the given kind of value
Resolve(log, kind) ==
  [log EXCEPT ![Len(log)] = [@ EXCEPT !.status = "resolved", !.value = kind]]

\* mutation of AICatch: the error leaves generateCodeWithAI
AICatchRethrow(error) ==
  /\ aiRaised' = <<error>>
  /\ aiResult' = <<>>
  /\ aiPc' = "idle"
  /\ thrown' = <<error>>
  /\ runPc' = "failed"
  /\ aiLog' = Resolve(aiLog, "rejected")

\* the catch block: a warning is logged and null is returned
AICatch(error) ==
  /\ aiRaised' = <<error>>
  /\ aiResult' = <<>>
  /\ aiPc' = "returned"
  /\ aiLog' = Resolve(aiLog, "null")
  /\ UNCHANGED <<thrown, runPc>>

\* return of a value from inside the try block
AIReturn(value) ==
  /\ aiResult' = value
  /\ aiPc' = "returned"
  /\ aiLog' = Resolve(aiLog, "text")
  /\ UNCHANGED <<aiRaised, thrown, runPc>>

\* mutation of AICheckConfig: only the library guard, the key is not looked at
AICheckConfigNoKeyGuard ==
  /\ aiPc = "entered"
  /\ IF ~OPENAI_AVAILABLE
     THEN aiResult' = <<>> /\ aiPc' = "returned" /\ aiLog' = Resolve(aiLog, "null")
     ELSE aiPc' = "construct" /\ UNCHANGED <<aiResult, aiLog>>
  /\ UNCHANGED <<OPENAI_AVAILABLE, env, config, runPc, entityIdx, aiArgs,
                 aiRaised, clients, requests, files, thrown>>
  /\ UNCHANGED <<exVars, plVars, paVars, moVars, mrVars, inVars, exitCode, dirs>>

\* the two guards in front of the try block
AICheckConfig ==
  /\ aiPc = "entered"
  /\ IF ~OPENAI_AVAILABLE \/ ~Truthy(env.OPENAI_API_KEY)
     THEN aiResult' = <<>> /\ aiPc' = "returned" /\ aiLog' = Resolve(aiLog, "null")
     ELSE aiPc' = "construct" /\ UNCHANGED <<aiResult, aiLog>>
  /\ UNCHANGED <<OPENAI_AVAILABLE, env, config, runPc, entityIdx, aiArgs,
                 aiRaised, clients, requests, files, thrown>>
  /\ UNCHANGED <<exVars, plVars, paVars, moVars, mrVars, inVars, exitCode, dirs>>

\* new OpenAI(clientConfig): yields a client or raises
AIConstructClient ==
  /\ aiPc = "construct"
  /\ \/ /\ clients' = clients + 1
        /\ aiPc' = "request"
        /\ UNCHANGED <<aiResult, aiRaised, thrown, runPc, aiLog>>
     \/ /\ AICatch("OpenAIError: client could not be constructed")
        /\ UNCHANGED clients
  /\ UNCHANGED <<OPENAI_AVAILABLE, env, config, entityIdx, aiArgs, requests, files>>
  /\ UNCHANGED <<exVars, plVars, paVars, moVars, mrVars, inVars, exitCode, dirs>>

\* openai.chat.completions.create(...) is called and awaited
AISendRequest ==
  /\ aiPc = "request"
  /\ requests' = Append(requests,
       [model |-> IF Truthy(aiArgs.model) THEN aiArgs.model[1]
                  ELSE IF Truthy(env.OPENAI_MODEL) THEN env.OPENAI_MODEL[1]
                  ELSE "gpt-4",
        baseURL |-> IF Truthy(env.OPENAI_ENDPOINT) THEN env.OPENAI_ENDPOINT ELSE <<>>,
        max_tokens |-> aiArgs.maxTokens,
        caller |-> aiArgs.caller,
        entityName |-> aiArgs.entityName])
  /\ aiPc' = "awaiting"
  /\ UNCHANGED <<OPENAI_AVAILABLE, env, config, runPc, entityIdx, aiArgs,
                 aiResult, aiRaised, clients, files, thrown, aiLog>>
  /\ UNCHANGED <<exVars, plVars, paVars, moVars, mrVars, inVars, exitCode, dirs>>

\* the awaited promise settles; response.choices[0].message.content.trim()
AIResponse ==
  /\ aiPc = "awaiting"
  /\ \E outcome \in ServiceOutcomes :
       IF outcome.kind = "reject" THEN AICatch(outcome.error)
       ELSE IF Len(outcome.choices) = 0
       THEN AICatch("TypeError: cannot read properties of undefined (reading message)")
       ELSE IF outcome.choices[1].content = <<>>
       THEN AICatch("TypeError: cannot read properties of null (reading trim)")
       ELSE AIReturn(<<trim(outcome.choices[1].content[1])>>)
  /\ UNCHANGED <<OPENAI_AVAILABLE, env, config, entityIdx, aiArgs, clients,
                 requests, files>>
  /\ UNCHANGED <<exVars, plVars, paVars, moVars, mrVars, inVars, exitCode, dirs>>

\* ------------------------------------------------------ project skeleton
\* a directory below projectPath
Directory(dir, feature, sub) == [dir |-> dir, feature |-> feature, sub |-> sub]

\* path.dirname of a file
dirname(p) == Directory(p.dir, p.feature, p.sub)

\* the directory of a feature and one of its subdirectories
FeatureDir(entityPlural, sub) == Directory("src/app/features", entityPlural, sub)

Home == <<"h", "o", "m", "e">>

\* path.dirname of the static directories; "" is projectPath and ".." the
\* output directory generated-projects
DirParent ==
  ("src/app/core/services" :> "src/app/core")
    @@ ("src/app/core/interfaces" :> "src/app/core")
    @@ ("src/app/core" :> "src/app")
    @@ ("src/app/shared/components" :> "src/app/shared")
    @@ ("src/app/shared/directives" :> "src/app/shared")
    @@ ("src/app/shared/pipes" :> "src/app/shared")
    @@ ("src/app/shared" :> "src/app")
    @@ ("src/app/layout/header" :> "src/app/layout")
    @@ ("src/app/layout/footer" :> "src/app/layout")
    @@ ("src/app/layout/sidebar" :> "src/app/layout")
    @@ ("src/app/layout" :> "src/app")
    @@ ("src/app/features" :> "src/app")
    @@ ("src/app" :> "src")
    @@ ("src/assets/images" :> "src/assets")
    @@ ("src/assets" :> "src")
    @@ ("src/environments" :> "src")
    @@ ("src" :> "")
    @@ ("public" :> "")
    @@ ("" :> "..")

\* path.dirname of a directory
Up(d) ==
  IF d.feature # <<>>
  THEN IF d.sub = "components/home" THEN FeatureDir(d.feature, "components")
       ELSE IF d.sub # "" THEN FeatureDir(d.feature, "")
       ELSE Directory("src/app/features", <<>>, "")
  ELSE Directory(DirParent[d.dir], <<>>, "")

\* the directories above a directory, up to the output directory
RECURSIVE Ancestors(_)
Ancestors(d) ==
  IF d.feature = <<>> /\ d.dir = ".." THEN {}
  ELSE {Up(d)} \cup Ancestors(Up(d))

\* n directories up
RECURSIVE UpBy(_, _)
UpBy(d, n) == IF n = 0 THEN d ELSE UpBy(Up(d), n - 1)

\* path.join of a directory and the directories named in an import
Below(d, down) ==
  IF d.feature # <<>> THEN FeatureDir(d.feature, down)
  ELSE IF d.dir = "src/app/features"
  THEN IF down = "services" THEN FeatureDir(<<"s", "e", "r", "v", "i", "c", "e", "s">>, "")
       ELSE FeatureDir(<<"c", "o", "r", "e">>, "interfaces")
  ELSE IF d.dir = "src/app"
  THEN Directory(IF down = "core/interfaces" THEN "src/app/core/interfaces"
                 ELSE IF down = "environments" THEN "src/app/environments"
                 ELSE "src/app/services", <<>>, "")
  ELSE Directory(IF down = "environments" THEN "src/environments" ELSE "src/services",
                 <<>>, "")

\* the file a relative import names, resolved against the directory of the
\* file that holds it
Resolved(path, imp) ==
  LET target == Below(UpBy(dirname(path), imp.up), imp.down)
  IN [dir |-> target.dir, feature |-> target.feature, sub |-> target.sub,
      entity |-> imp.entity, suffix |-> imp.suffix]

\* mutation of mkdirSync: without {recursive: true}
mkdirSyncShallow(ds, d) == ds \cup {d}

\* fs.mkdirSync(dir, {recursive: true}): the directory and those above it
mkdirSync(ds, d) == ds \cup {d} \cup Ancestors(d)

\* fs.mkdirSync of every directory of a list: what exists afterwards does
\* not depend on the order of the calls
mkdirAll(ds, list) ==
  ds \cup UNION {mkdirSync({}, list[i]) : i \in 1..Len(list)}

\* a file that is not part of an entity feature
StaticPath(dir, name) ==
  [dir |-> dir, feature |-> <<>>, sub |-> "", entity |-> <<>>, suffix |-> name]

HomePath(sub, name) ==
  [dir |-> "src/app/features", feature |-> Home, sub |-> sub,
   entity |-> <<>>, suffix |-> name]

\* a template literal of the skeleton with the values interpolated into it
Expanded(of, uses) ==
  [origin |-> "skeleton", of |-> of, uses |-> uses, standalone |-> StandaloneOf(of)]

\* the writes of a list, in order
\* fs.writeFileSync of every file of a list, in order: a path holds the
\* content of the last write to it
writeAll(fs, writes) ==
  LET paths == {writes[i].path : i \in 1..Len(writes)}
      last(p) == CHOOSE i \in 1..Len(writes) :
                   /\ writes[i].path = p
                   /\ \A j \in (i + 1)..Len(writes) : writes[j].path # p
  IN [p \in DOMAIN fs \cup paths |->
        IF p \in paths THEN writes[last(p)].content ELSE fs[p]]

\* path.basename of every reference image
Basenames(images) == [i \in 1..Len(images) |-> images[i].basename]

\* fs.copyFileSync inside try/catch for each image: a copy that fails is
\* skipped with a warning
CopiedImages(images) ==
  LET readable == SelectSeq(images, LAMBDA img : img.readable)
  IN [i \in 1..Len(readable) |->
        [path |-> StaticPath("src/assets/images", readable[i].basename),
         content |-> [origin |-> "copy", of |-> readable[i].basename, uses |-> <<>>]]]

\* description.split('.')[0]
FirstSentence(text) ==
  IF \E i \in 1..Len(text) : text[i] = "."
  THEN SubSeq(text, 1, (CHOOSE i \in 1..Len(text) :
                          text[i] = "." /\ \A k \in 1..(i - 1) : text[k] # ".") - 1)
  ELSE text

\* truncated.lastIndexOf(' '), counted from 1; 0 when there is no blank
LastBlank(text) ==
  IF \E i \in 1..Len(text) : text[i] = " "
  THEN CHOOSE i \in 1..Len(text) :
         text[i] = " " /\ \A k \in (i + 1)..Len(text) : text[k] # " "
  ELSE 0

\* getDescriptionSummary(description) with maxLength = 100; substring(0, -1)
\* of a text without a blank is empty
getDescriptionSummary(desc) ==
  IF ~TruthyText(desc) THEN <<>>
  ELSE LET text == desc[1]
           truncated == SubSeq(text, 1, 100)
       IN IF Len(FirstSentence(text)) <= 100 THEN FirstSentence(text) \o <<".">>
          ELSE IF Len(text) <= 100 THEN text
          ELSE SubSeq(truncated, 1, LastBlank(truncated) - 1) \o <<".", ".", ".">>

\* const routes of app-routing.module.ts
AppRoutes ==
  << [path |-> <<>>, redirectTo |-> "/home", loadChildren |-> ""],
     [path |-> Home, redirectTo |-> "",
      loadChildren |-> "./features/home/home.module#HomeModule"] >>

\* the imports of AppModule
AppModuleImports ==
  <<"BrowserModule", "BrowserAnimationsModule", "AppRoutingModule",
    "CoreModule", "SharedModule", "LayoutModule">>

\* the directories createModuleBasedStructure makes before it writes
StructureDirs(entityList) ==
  << Directory("src/app/core/services", <<>>, ""),
     Directory("src/app/core/interfaces", <<>>, ""),
     Directory("src/app/shared/components", <<>>, ""),
     Directory("src/app/shared/directives", <<>>, ""),
     Directory("src/app/shared/pipes", <<>>, ""),
     Directory("src/app/layout/header", <<>>, ""),
     Directory("src/app/layout/footer", <<>>, ""),
     Directory("src/app/layout/sidebar", <<>>, ""),
     FeatureDir(Home, "components"),
     Directory("src/assets/images", <<>>, ""),
     Directory("src/environments", <<>>, ""),
     Directory("public", <<>>, "") >>
  \o [n \in 1..(2 * Len(entityList)) |->
        FeatureDir(pluralize(entityList[(n + 1) \div 2]),
                   IF n % 2 = 1 THEN "components" ELSE "services")]

\* the directories made later, by createLayoutModule and createHomeModule
ModuleDirs ==
  << Directory("src/app/layout", <<>>, ""),
     Directory("src/app/layout/header", <<>>, ""),
     Directory("src/app/layout/footer", <<>>, ""),
     FeatureDir(Home, "components/home") >>

\* the lines of the Detected Entities section of the README
ReadmeEntities(entityList) ==
  [n \in 1..Len(entityList) |->
     [title |-> capitalize(entityList[n]), feature |-> pluralize(entityList[n])]]

\* mutation of createReadme: the README names the styling, the version and
\* the architecture of the request
createReadmeAsRequested(name, cfg, images) ==
  [path |-> StaticPath("", "README.md"),
   content |-> Expanded("README.md",
     <<name, Basenames(images), ReadmeEntities(cfg.entities), cfg.features,
       cfg.styling, cfg.version, cfg.architecture>>)]

\* createReadme: the project name, the summary of the description, the
\* reference images, the entities and the features
createReadme(name, cfg, images) ==
  [path |-> StaticPath("", "README.md"),
   content |-> Expanded("README.md",
     <<name,
       IF Len(getDescriptionSummary(cfg.description)) > 0
       THEN getDescriptionSummary(cfg.description)
       ELSE <<"Angular application with Komodo UI components">>,
       Basenames(images),
       ReadmeEntities(cfg.entities),
       cfg.features>>)]

\* the files written from package.json to README.md, in the order of the
\* calls of createModuleBasedStructure
StructureWrites(name, cfg, images) ==
  LET hasReferenceImages == Len(images) > 0
      plain(dir, file) == [path |-> StaticPath(dir, file), content |-> Expanded(file, <<>>)]
      layout(dir, file) ==
        [path |-> StaticPath(dir, file), content |-> Expanded(file, <<hasReferenceImages>>)]
      home(sub, file, uses) ==
        [path |-> HomePath(sub, file), content |-> Expanded(file, uses)]
  IN << [path |-> StaticPath("", "package.json"),
         content |-> Expanded("package.json", <<name>>)],
        [path |-> StaticPath("", "angular.json"),
         content |-> Expanded("angular.json", <<name>>)],
        plain("", "tsconfig.json"),
        plain("", "tsconfig.app.json"),
        plain("", "tsconfig.spec.json"),
        [path |-> StaticPath("src/app", "app.module.ts"),
         content |-> Expanded("app.module.ts", AppModuleImports)],
        [path |-> StaticPath("src/app", "app.component.ts"),
         content |-> Expanded("app.component.ts", <<name>>)],
        plain("src/app", "app.component.html"),
        plain("src/app", "app.component.scss"),
        [path |-> StaticPath("src/app", "app-routing.module.ts"),
         content |-> Expanded("app-routing.module.ts", AppRoutes)],
        plain("src/app/core", "core.module.ts"),
        plain("src/app/shared", "shared.module.ts"),
        layout("src/app/layout", "layout.module.ts"),
        layout("src/app/layout", "layout.component.ts"),
        layout("src/app/layout", "layout.component.html"),
        layout("src/app/layout", "layout.component.scss"),
        layout("src/app/layout/header", "header.component.ts"),
        layout("src/app/layout/header", "header.component.html"),
        layout("src/app/layout/header", "header.component.scss"),
        layout("src/app/layout/footer", "footer.component.ts"),
        layout("src/app/layout/footer", "footer.component.html"),
        layout("src/app/layout/footer", "footer.component.scss"),
        home("", "home.module.ts", <<>>),
        home("components/home", "home.component.ts",
             <<name,
               IF TruthyText(cfg.description) THEN cfg.description[1]
               ELSE <<"Welcome to your Angular application">>,
               Basenames(images)>>),
        home("components/home", "home.component.html", <<hasReferenceImages>>),
        home("components/home", "home.component.scss", <<>>),
        plain("src/environments", "environment.ts"),
        plain("src/environments", "environment.prod.ts"),
        plain("src", "main.ts"),
        plain("src", "index.html"),
        [path |-> StaticPath("src", "styles.scss"),
         content |-> Expanded("styles.scss", <<hasReferenceImages>>)],
        createReadme(name, cfg, images) >>

\* .gitignore, .editorconfig and .npmrc
ConfigWrites ==
  << [path |-> StaticPath("", ".gitignore"), content |-> Expanded(".gitignore", <<>>)],
     [path |-> StaticPath("", ".editorconfig"), content |-> Expanded(".editorconfig", <<>>)],
     [path |-> StaticPath("", ".npmrc"), content |-> Expanded(".npmrc", <<>>)] >>

\* Dockerfile and docker-compose.yml
DockerWrites(name) ==
  << [path |-> StaticPath("", "Dockerfile"), content |-> Expanded("Dockerfile", <<name>>)],
     [path |-> StaticPath("", "docker-compose.yml"),
      content |-> Expanded("docker-compose.yml", <<name>>)] >>

\* ------------------------------------------------------ file system calls
MkdirCall(d) ==
  [kind |-> "mkdir", target |-> d, content |-> <<>>, readable |-> TRUE]

WriteCall(w) ==
  [kind |-> "write", target |-> w.path, content |-> <<w.content>>, readable |-> TRUE]

\* fs.copyFileSync(imgPath, destPath) of one reference image
CopyCall(img) ==
  [kind |-> "copy", target |-> StaticPath("src/assets/images", img.basename),
   content |-> <<[origin |-> "copy", of |-> img.basename, uses |-> <<>>]>>,
   readable |-> img.readable]

\* the errors of the fs module
FsErrors ==
  {"EACCES: permission denied, mkdir", "EACCES: permission denied, open",
   "ENOENT: no such file or directory, open",
   "ENOENT: no such file or directory, open metadata file"}

\* the file system refuses this call
Refused(call) ==
  /\ fsFault # <<>>
  /\ fsFault[1].kind = call.kind
  /\ fsFault[1].target = call.target

\* one call on the tree st = [dirs, files, error]: nothing more is done once
\* a call has raised; a copy is inside try/catch and raises nothing
fsCall(st, call) ==
  IF st.error # <<>> THEN st
  ELSE IF call.kind = "mkdir"
  THEN IF Refused(call)
       THEN [st EXCEPT !.error = <<"EACCES: permission denied, mkdir">>]
       ELSE [st EXCEPT !.dirs = mkdirSync(@, call.target)]
  ELSE IF call.kind = "copy"
  THEN IF call.readable /\ dirname(call.target) \in st.dirs
       THEN [st EXCEPT !.files = writeFileSync(@, call.target, call.content[1])]
       ELSE st
  ELSE IF dirname(call.target) \notin st.dirs
  THEN [st EXCEPT !.error = <<"ENOENT: no such file or directory, open">>]
  ELSE IF Refused(call)
  THEN [st EXCEPT !.error = <<"EACCES: permission denied, open">>]
  ELSE [st EXCEPT !.files = writeFileSync(@, call.target, call.content[1])]

\* the calls calls[lo..hi] made one after the other, up to the first that
\* raises
RECURSIVE fsCallsFromTo(_, _, _, _)
fsCallsFromTo(st, calls, lo, hi) ==
  IF lo > hi THEN st
  ELSE IF lo = hi THEN fsCall(st, calls[lo])
  ELSE LET first == fsCallsFromTo(st, calls, lo, (lo + hi) \div 2)
       IN IF first.error # <<>> THEN first
          ELSE fsCallsFromTo(first, calls, (lo + hi) \div 2 + 1, hi)

fsCalls(st, calls) == fsCallsFromTo(st, calls, 1, Len(calls))

\* the mkdirSync calls createLayoutModule and createHomeModule make in front
\* of the write of a file
MkdirsBefore(file) ==
  IF file = "layout.module.ts" THEN <<MkdirCall(ModuleDirs[1])>>
  ELSE IF file = "header.component.ts" THEN <<MkdirCall(ModuleDirs[2])>>
  ELSE IF file = "footer.component.ts" THEN <<MkdirCall(ModuleDirs[3])>>
  ELSE IF file = "home.module.ts" THEN <<MkdirCall(ModuleDirs[4])>>
  ELSE <<>>

\* the calls that write a list of files, in order
RECURSIVE WriteCallsFromTo(_, _, _)
WriteCallsFromTo(writes, lo, hi) ==
  IF lo > hi THEN <<>>
  ELSE IF lo = hi
  THEN MkdirsBefore(writes[lo].content.of) \o <<WriteCall(writes[lo])>>
  ELSE WriteCallsFromTo(writes, lo, (lo + hi) \div 2)
         \o WriteCallsFromTo(writes, (lo + hi) \div 2 + 1, hi)

WriteCalls(writes) == WriteCallsFromTo(writes, 1, Len(writes))

\* the calls of createModuleBasedStructure up to createReadme, in order
StructureCalls(name, cfg, images) ==
  LET ds == StructureDirs(cfg.entities)
  IN [i \in 1..Len(ds) |-> MkdirCall(ds[i])]
       \o [i \in 1..Len(images) |-> CopyCall(images[i])]
       \o WriteCalls(StructureWrites(name, cfg, images))

\* calls made one after the other by the run; an error that is raised
\* rejects main(), whose catch handler ends the process with status 1
FsRun(calls, after) ==
  LET r == fsCalls([dirs |-> dirs, files |-> files, error |-> <<>>], calls)
  IN /\ dirs' = r.dirs
     /\ files' = r.files
     /\ thrown' = r.error
     /\ runPc' = IF r.error = <<>> THEN after ELSE "failed"
     /\ exitCode' = IF r.error # <<>> THEN <<1>>
                    ELSE IF after = "done" THEN <<0>> ELSE exitCode

\* ---------------------------------------------------- generateAngularProject
\* main: the request text is parsed and the output directory made
Main ==
  /\ runPc = "main"
  /\ IF argv < 4
     THEN /\ runPc' = "usage"
          /\ exitCode' = <<1>>
          /\ UNCHANGED <<config, dirs, files, thrown>>
     ELSE IF metadataFile # "issue_body"
     THEN /\ thrown' =
               IF metadataFile = "unreadable"
               THEN <<"ENOENT: no such file or directory, open metadata file">>
               ELSE IF metadataFile = "not JSON"
               THEN <<"SyntaxError: Unexpected token in JSON">>
               ELSE <<"TypeError: Cannot read properties of undefined (reading match)">>
          /\ runPc' = "failed"
          /\ exitCode' = <<1>>
          /\ UNCHANGED <<config, dirs, files>>
     ELSE /\ config' = LET cfg == parseIssueBody(issueBody)
                       IN [features |-> cfg.features, styling |-> cfg.styling,
                           version |-> cfg.version, architecture |-> cfg.architecture,
                           description |-> cfg.description, entities |-> <<>>]
          /\ FsRun(IF Directory("..", <<>>, "") \in dirs THEN <<>>
                   ELSE <<MkdirCall(Directory("..", <<>>, ""))>>,
                   "generateAngularProject")
  /\ UNCHANGED <<OPENAI_AVAILABLE, env, entityIdx, aiPc, aiArgs, aiResult, aiRaised,
                 clients, requests, aiLog>>
  /\ UNCHANGED <<exVars, plVars, paVars, moVars, mrVars, inVars>>

\* mutation of GenerateAngularProject: config.description is passed on as
\* it is, and description.toLowerCase() raises on an absent description
GenerateAngularProjectNoOr ==
  /\ runPc = "generateAngularProject"
  /\ IF config.description = <<>>
     THEN /\ thrown' = <<"TypeError: cannot read properties of undefined (reading toLowerCase)">>
          /\ runPc' = "failed"
          /\ UNCHANGED config
     ELSE /\ config' = [config EXCEPT !.entities =
                          extractEntitiesFromDescription(config.description[1])]
          /\ runPc' = "createModuleBasedStructure"
          /\ UNCHANGED thrown
  /\ UNCHANGED <<OPENAI_AVAILABLE, env, entityIdx, aiPc, aiArgs, aiResult, aiRaised,
                 clients, requests, files, aiLog>>
  /\ UNCHANGED <<exVars, plVars, paVars, moVars, mrVars, inVars, exitCode, dirs>>

\* config.entities = extractEntitiesFromDescription(config.description || '')
GenerateAngularProject ==
  /\ runPc = "generateAngularProject"
  /\ config' = [config EXCEPT !.entities =
                  extractEntitiesFromDescription(
                    IF config.description = <<>> THEN <<>> ELSE config.description[1])]
  /\ runPc' = "createModuleBasedStructure"
  /\ UNCHANGED <<OPENAI_AVAILABLE, env, entityIdx, aiPc, aiArgs, aiResult, aiRaised,
                 clients, requests, files, thrown, aiLog>>
  /\ UNCHANGED <<exVars, plVars, paVars, moVars, mrVars, inVars, exitCode, dirs>>

\* createModuleBasedStructure up to createReadme: the directories, the
\* copies of the reference images, and the files of the skeleton
CreateModuleBasedStructure ==
  /\ runPc = "createModuleBasedStructure"
  /\ FsRun(StructureCalls(projectName, config, referenceImages), "createConfigFiles")
  /\ UNCHANGED <<OPENAI_AVAILABLE, env, config, entityIdx, aiPc, aiArgs, aiResult,
                 aiRaised, clients, requests, aiLog>>
  /\ UNCHANGED <<exVars, plVars, paVars, moVars, mrVars, inVars>>

\* createConfigFiles up to its loop over config.entities
CreateConfigFiles ==
  /\ runPc = "createConfigFiles"
  /\ FsRun(WriteCalls(ConfigWrites), "entityLoop")
  /\ entityIdx' = 1
  /\ UNCHANGED <<OPENAI_AVAILABLE, env, config, aiPc, aiArgs, aiResult, aiRaised,
                 clients, requests, aiLog>>
  /\ UNCHANGED <<exVars, plVars, paVars, moVars, mrVars, inVars>>

\* mutation of CreateDockerFiles: the Dockerfile carries the time of the run
CreateDockerFilesStamped ==
  /\ runPc = "createDockerFiles"
  /\ \E now \in {"07:00", "07:01"} :
       FsRun(WriteCalls(DockerWrites(projectName) \o
               <<[path |-> StaticPath("", "Dockerfile"),
                  content |-> Expanded("Dockerfile", <<projectName, now>>)]>>),
             "done")
  /\ UNCHANGED <<OPENAI_AVAILABLE, env, config, entityIdx, aiPc, aiArgs, aiResult,
                 aiRaised, clients, requests, aiLog>>
  /\ UNCHANGED <<exVars, plVars, paVars, moVars, mrVars, inVars>>

\* createDockerFiles, the last call of createModuleBasedStructure
CreateDockerFiles ==
  /\ runPc = "createDockerFiles"
  /\ FsRun(WriteCalls(DockerWrites(projectName)), "done")
  /\ UNCHANGED <<OPENAI_AVAILABLE, env, config, entityIdx, aiPc, aiArgs, aiResult,
                 aiRaised, clients, requests, aiLog>>
  /\ UNCHANGED <<exVars, plVars, paVars, moVars, mrVars, inVars>>

\* head of the loop over config.entities in createConfigFiles
NextEntity ==
  /\ runPc = "entityLoop"
  /\ runPc' = IF entityIdx <= Len(config.entities) THEN "component" ELSE "createDockerFiles"
  /\ UNCHANGED <<OPENAI_AVAILABLE, env, config, entityIdx, aiPc, aiArgs, aiResult,
                 aiRaised, clients, requests, files, thrown, aiLog>>
  /\ UNCHANGED <<exVars, plVars, paVars, moVars, mrVars, inVars, exitCode, dirs>>

entityName == config.entities[entityIdx]

\* generateEntityComponent / generateEntityService up to the await, or to
\* the template when the description is absent or empty
CallGenerator(at, waiting, after, path, of, maxTokens) ==
  /\ runPc = at
  /\ IF TruthyText(config.description)
     THEN /\ aiArgs' = [caller |-> of, entityName |-> entityName,
                        model |-> <<>>, maxTokens |-> maxTokens]
          /\ aiPc' = "entered"
          /\ aiRaised' = <<>>
          /\ aiLog' = Append(aiLog, [caller |-> of, entityName |-> entityName,
                                     idx |-> entityIdx, path |-> path,
                                     status |-> "pending", value |-> "none"])
          /\ runPc' = waiting
          /\ UNCHANGED <<files, dirs, thrown, exitCode>>
     ELSE /\ FsRun(<<WriteCall([path |-> path, content |-> Template(of, entityName)])>>,
                   after)
          /\ UNCHANGED <<aiArgs, aiPc, aiRaised, aiLog>>
  /\ UNCHANGED <<OPENAI_AVAILABLE, env, config, entityIdx, aiResult, clients, requests>>
  /\ UNCHANGED <<exVars, plVars, paVars, moVars, mrVars, inVars>>

\* mutation of ReturnFromGenerator: a null result is written as an empty
\* file instead of the template
ReturnFromGeneratorNoFallback(waiting, after, path, of) ==
  /\ runPc = waiting
  /\ aiPc = "returned"
  /\ FsRun(<<WriteCall([path |-> path,
                        content |-> Generated(of, entityName,
                          IF TruthyText(aiResult) THEN cleanCode(aiResult[1])
                          ELSE <<>>)])>>,
           after)
  /\ aiPc' = "idle"
  /\ UNCHANGED <<OPENAI_AVAILABLE, env, config, entityIdx, aiArgs, aiResult,
                 aiRaised, clients, requests, aiLog>>
  /\ UNCHANGED <<exVars, plVars, paVars, moVars, mrVars, inVars>>

\* mutation of ReturnFromGenerator: the call is not awaited, the caller goes
\* on while generateCodeWithAI is still running and writes the template
ReturnFromGeneratorNoAwait(waiting, after, path, of) ==
  /\ runPc = waiting
  /\ FsRun(<<WriteCall([path |-> path, content |-> Template(of, entityName)])>>, after)
  /\ aiPc' = "idle"
  /\ UNCHANGED <<OPENAI_AVAILABLE, env, config, entityIdx, aiArgs, aiResult,
                 aiRaised, clients, requests, aiLog>>
  /\ UNCHANGED <<exVars, plVars, paVars, moVars, mrVars, inVars>>

\* generateCodeWithAI has returned: the cleaned text if there is one, the
\* template otherwise, is written by generateEntityFeature
ReturnFromGenerator(waiting, after, path, of) ==
  /\ runPc = waiting
  /\ aiPc = "returned"
  /\ FsRun(<<WriteCall([path |-> path,
                        content |-> IF TruthyText(aiResult)
                                    THEN Generated(of, entityName, cleanCode(aiResult[1]))
                                    ELSE Template(of, entityName)])>>,
           after)
  /\ aiPc' = "idle"
  /\ UNCHANGED <<OPENAI_AVAILABLE, env, config, entityIdx, aiArgs, aiResult,
                 aiRaised, clients, requests, aiLog>>
  /\ UNCHANGED <<exVars, plVars, paVars, moVars, mrVars, inVars>>

\* a file of generateEntityFeature that is always expanded from its template
WriteTemplate(at, after, path, of) ==
  /\ runPc = at
  /\ FsRun(<<WriteCall([path |-> path, content |-> Template(of, entityName)])>>, after)
  /\ UNCHANGED <<OPENAI_AVAILABLE, env, config, entityIdx, aiPc, aiArgs, aiResult,
                 aiRaised, clients, requests, aiLog>>
  /\ UNCHANGED <<exVars, plVars, paVars, moVars, mrVars, inVars>>

ComponentPath(e) == FeaturePath(pluralize(e), "components", e, "-list.component.ts")

\* mutation of ServicePath: the service is written next to the component
ServicePathInComponents(e) == FeaturePath(pluralize(e), "components", e, ".service.ts")

ServicePath(e) == FeaturePath(pluralize(e), "services", e, ".service.ts")

GenerateEntityComponent ==
  CallGenerator("component", "componentAwait", "html",
                ComponentPath(entityName), "component", 3000)

GenerateEntityComponentReturn ==
  ReturnFromGenerator("componentAwait", "html", ComponentPath(entityName), "component")

WriteComponentHtml ==
  WriteTemplate("html", "scss",
    FeaturePath(pluralize(entityName), "components", entityName, "-list.component.html"),
    "html")

WriteComponentScss ==
  WriteTemplate("scss", "service",
    FeaturePath(pluralize(entityName), "components", entityName, "-list.component.scss"),
    "scss")

GenerateEntityService ==
  CallGenerator("service", "serviceAwait", "interface",
                ServicePath(entityName), "service", 2000)

GenerateEntityServiceReturn ==
  ReturnFromGenerator("serviceAwait", "interface", ServicePath(entityName), "service")

WriteInterface ==
  WriteTemplate("interface", "module", InterfacePath(entityName), "interface")

\* the last write of generateEntityFeature; the loop goes on
WriteModule ==
  /\ runPc = "module"
  /\ FsRun(<<WriteCall([path |-> FeaturePath(pluralize(entityName), "", entityName,
                                             ".module.ts"),
                        content |-> Template("module", entityName)])>>,
           "entityLoop")
  /\ entityIdx' = entityIdx + 1
  /\ UNCHANGED <<OPENAI_AVAILABLE, env, config, aiPc, aiArgs, aiResult,
                 aiRaised, clients, requests, aiLog>>
  /\ UNCHANGED <<exVars, plVars, paVars, moVars, mrVars, inVars>>

\* ------------------------------------------------------------ start of a run
\* config.entities of the run that a request text starts
EntitiesOf(body) ==
  LET d == parseIssueBody(body).description
  IN extractEntitiesFromDescription(IF d = <<>> THEN <<>> ELSE d[1])

\* the six files of one entity, each expanded from its template
TemplateWrites(e) ==
  << [path |-> FeaturePath(pluralize(e), "components", e, "-list.component.ts"),
      content |-> Template("component", e)],
     [path |-> FeaturePath(pluralize(e), "components", e, "-list.component.html"),
      content |-> Template("html", e)],
     [path |-> FeaturePath(pluralize(e), "components", e, "-list.component.scss"),
      content |-> Template("scss", e)],
     [path |-> FeaturePath(pluralize(e), "services", e, ".service.ts"),
      content |-> Template("service", e)],
     [path |-> InterfacePath(e), content |-> Template("interface", e)],
     [path |-> FeaturePath(pluralize(e), "", e, ".module.ts"),
      content |-> Template("module", e)] >>

RECURSIVE AllTemplateWrites(_)
AllTemplateWrites(entityList) ==
  IF Len(entityList) = 0 THEN <<>>
  ELSE TemplateWrites(Head(entityList)) \o AllTemplateWrites(Tail(entityList))

\* the output of the template path as a function of the three inputs of a
\* run: project name, request text and reference images
TemplateOutput(name, body, images) ==
  LET cfg == parseIssueBody(body)
      entityList == extractEntitiesFromDescription(
                      IF cfg.description = <<>> THEN <<>> ELSE cfg.description[1])
      full == [features |-> cfg.features, styling |-> cfg.styling,
               version |-> cfg.version, architecture |-> cfg.architecture,
               description |-> cfg.description, entities |-> entityList]
  IN writeAll(<<>>,
       CopiedImages(images) \o StructureWrites(name, full, images) \o ConfigWrites
         \o AllTemplateWrites(entityList) \o DockerWrites(name))

\* the paths a run with these inputs writes or copies to
GeneratedPaths(name, body, images) == DOMAIN TemplateOutput(name, body, images)

\* the files of the output directory before the run: none, or files left by
\* an earlier generation at every path of this one, or the files the same
\* generation has written there before without Generative Assist
PreExistingFiles(rt, name, body, images) ==
  IF rt = "empty" THEN <<>>
  ELSE IF rt = "generated" THEN TemplateOutput(name, body, images)
  ELSE [p \in GeneratedPaths(name, body, images) |->
          [origin |-> "earlier run", of |-> "", uses |-> <<>>]]

\* the directories before the run: none, or all of those the run makes
PreExistingDirs(rt, body) ==
  IF rt = "empty" THEN {}
  ELSE mkdirAll({Directory("..", <<>>, "")},
                StructureDirs(EntitiesOf(body)) \o ModuleDirs)

\* the calls the file system may refuse in a run: a directory or a file of
\* each step
Faults ==
  { [kind |-> "mkdir", target |-> Directory("..", <<>>, "")],
    [kind |-> "mkdir", target |-> Directory("src/app/core/services", <<>>, "")],
    [kind |-> "mkdir", target |-> Directory("src/app/layout", <<>>, "")],
    [kind |-> "write", target |-> StaticPath("", "package.json")],
    [kind |-> "write", target |-> StaticPath("", "README.md")],
    [kind |-> "write", target |-> StaticPath("", ".editorconfig")],
    [kind |-> "write", target |-> ComponentPath(Str.item)],
    [kind |-> "write", target |-> ServicePath(Str.user)],
    [kind |-> "write", target |-> InterfacePath(Str.category)],
    [kind |-> "write", target |-> StaticPath("", "docker-compose.yml")] }

\* an environment without a key, and one with a key and the library
PlainEnvs ==
  {[OPENAI_API_KEY |-> k, OPENAI_ENDPOINT |-> <<>>, OPENAI_MODEL |-> <<>>] :
     k \in {<<>>, <<"sk-test">>}}

Init ==
  /\ ModifyIdle
  /\ RequestIdle
  /\ ExtractIdle
  /\ InflectIdle
  /\ sections = <<>>
  /\ parsed = <<>>
  /\ paPc = "idle"
  /\ config = [description |-> <<>>, entities |-> <<>>]
  /\ runPc = "main"
  /\ entityIdx = 0
  /\ aiPc = "idle"
  /\ aiArgs = <<>>
  /\ aiResult = <<>>
  /\ aiRaised = <<>>
  /\ clients = 0
  /\ requests = <<>>
  /\ thrown = <<>>
  /\ aiLog = <<>>
  /\ exitCode = <<>>
  /\ referenceImages \in ReferenceImageLists
  /\ \/ /\ OPENAI_AVAILABLE \in BOOLEAN
        /\ issueBody \in RunBodies
        /\ env \in [OPENAI_API_KEY : ApiKeys, OPENAI_ENDPOINT : Endpoints,
                     OPENAI_MODEL : Models]
        /\ projectName \in ProjectNames
        /\ argv = 4
        /\ metadataFile = "issue_body"
        /\ root = "empty"
        /\ fsFault = <<>>
     \/ /\ OPENAI_AVAILABLE = TRUE
        /\ env \in PlainEnvs
        /\ projectName = "demo"
        /\ issueBody \in ModuleBodies
        /\ argv = 4
        /\ metadataFile = "issue_body"
        /\ root = "empty"
        /\ fsFault = <<>>
     \/ /\ OPENAI_AVAILABLE = TRUE
        /\ env \in PlainEnvs
        /\ projectName = "demo"
        /\ issueBody \in RunBodies
        /\ \/ /\ argv = 4
              /\ metadataFile = "issue_body"
              /\ \/ root \in {"stale", "generated"} /\ fsFault = <<>>
                 \/ root = "empty" /\ fsFault \in {<<f>> : f \in Faults}
           \/ /\ argv \in {2, 3, 4}
              /\ metadataFile \in {"issue_body", "no issue_body", "not JSON", "unreadable"}
              /\ argv < 4 \/ metadataFile # "issue_body"
              /\ root = "empty"
              /\ fsFault = <<>>
  /\ files = PreExistingFiles(root, projectName, issueBody, referenceImages)
  /\ dirs = PreExistingDirs(root, issueBody)

Next ==
  \/ Main
  \/ GenerateAngularProject
  \/ CreateModuleBasedStructure
  \/ CreateConfigFiles
  \/ NextEntity
  \/ GenerateEntityComponent
  \/ GenerateEntityComponentReturn
  \/ WriteComponentHtml
  \/ WriteComponentScss
  \/ GenerateEntityService
  \/ GenerateEntityServiceReturn
  \/ WriteInterface
  \/ WriteModule
  \/ CreateDockerFiles
  \/ AICheckConfig
  \/ AIConstructClient
  \/ AISendRequest
  \/ AIResponse

Spec == Init /\ [][Next]_vars

\* =================================================================== claims
\* ------------------------------------------- vocabulary of the claims C1-C7
LexiconIndexes == 1..Len(entityKeywords)

LexiconKeys == {entityKeywords[n].name : n \in LexiconIndexes}

\* position of a canonical name in the lexicon, 0 for any other string
LexiconIndex(name) ==
  IF name \in LexiconKeys
  THEN CHOOSE n \in LexiconIndexes : entityKeywords[n].name = name
  ELSE 0

\* the whole words of a text: its maximal runs of letters, digits and "_"
RunStarts(text) ==
  {i \in 1..Len(text) : WordChar(text[i]) /\ (i = 1 \/ ~WordChar(text[i - 1]))}

RunEnd(text, i) ==
  CHOOSE j \in i..Len(text) :
    /\ \A k \in i..j : WordChar(text[k])
    /\ j = Len(text) \/ ~WordChar(text[j + 1])

WholeWords(text) == {SubSeq(text, i, RunEnd(text, i)) : i \in RunStarts(text)}

\* the accepted forms of a keyword, as the specification words them
AcceptedForms(keyword) ==
  IF keyword[Len(keyword)] = "y"
  THEN {keyword, SubSeq(keyword, 1, Len(keyword) - 1) \o <<"i","e","s">>}
  ELSE {keyword, keyword \o <<"s">>}

\* lexicon entry n has a keyword, in an accepted form, among the given words
ListsOneOf(n, ws) ==
  \E k \in 1..Len(entityKeywords[n].keywords) :
    AcceptedForms(entityKeywords[n].keywords[k]) \cap ws # {}

\* the lexicon entries with a keyword occurring as a whole word of the
\* lower-cased text
MatchedIndexes(text) ==
  LET ws == WholeWords(toLowerCase(text))
  IN  {n \in LexiconIndexes : ListsOneOf(n, ws)}

NoRepeat(arr) == \A i, j \in 1..Len(arr) : i # j => arr[i] # arr[j]

Extracted == exPc = "extracted"

\* C1: for every description, the empty one included, the returned list has
\* at least 1 and at most 3 elements and no element twice
C1_LengthAndDistinct ==
  Extracted => /\ Len(entities) >= 1
               /\ Len(entities) <= 3
               /\ NoRepeat(entities)

\* more than three entities matched and three were returned
C1_Witness ==
  /\ Extracted
  /\ Cardinality(MatchedIndexes(description)) > 3
  /\ Len(entities) = 3

\* C2: a description in which no keyword matches gives exactly <<"item">>,
\* and "item" is returned in no other case and never next to another entity
C2_DefaultItem ==
  Extracted =>
    /\ MatchedIndexes(description) = {} <=> entities = <<Str.item>>
    /\ includes(entities, Str.item) => Len(entities) = 1

\* a non-empty description without any keyword was given the default
C2_Witness ==
  /\ Extracted
  /\ Len(description) > 0
  /\ MatchedIndexes(description) = {}
  /\ entities = <<Str.item>>

\* C3 as stated: every returned element is a key of the lexicon
C3_Original ==
  Extracted => \A i \in 1..Len(entities) : entities[i] \in LexiconKeys

\* C3, amended: every returned element is a key of the lexicon whose entry
\* matched, or it is the default "item" and then no keyword matched
C3_CanonicalOrDefault ==
  Extracted =>
    LET matched == MatchedIndexes(description)
    IN  \A i \in 1..Len(entities) :
          \/ LexiconIndex(entities[i]) \in matched
          \/ entities[i] = Str.item /\ matched = {}

\* an entity was found through a synonym only and reported by its key
C3_Witness ==
  /\ Extracted
  /\ includes(words, Word.TEAM)
  /\ includes(entities, Str.department)

\* the phrases of a description in another order
RotatePhrases(ws) == IF Len(ws) < 2 THEN ws ELSE Tail(ws) \o <<Head(ws)>>

SwapFirstPhrases(ws) ==
  IF Len(ws) < 2 THEN ws ELSE <<ws[2], ws[1]>> \o SubSeq(ws, 3, Len(ws))

\* C4: the returned entities stand in lexicon order, they are the first 3
\* matched entries of the lexicon, the same phrases in another order give the
\* same list (every reordering is a product of the two below), and the blog
\* description gives user, post, comment
C4_LexiconOrder ==
  Extracted =>
    /\ \A i, j \in 1..Len(entities) :
         i < j => LexiconIndex(entities[i]) < LexiconIndex(entities[j])
    /\ LET matched == MatchedIndexes(description)
       IN  matched # {} =>
             /\ Len(entities) = IF Cardinality(matched) < 3 THEN Cardinality(matched) ELSE 3
             /\ \A i \in 1..Len(entities) :
                  /\ LexiconIndex(entities[i]) \in matched
                  /\ Cardinality({m \in matched : m < LexiconIndex(entities[i])}) = i - 1
    /\ extractEntitiesFromDescription(JoinWords(RotatePhrases(words))) = entities
    /\ extractEntitiesFromDescription(JoinWords(SwapFirstPhrases(words))) = entities
    /\ words = BlogPhrases => entities = <<Str.user, Str.post, Str.comment>>

\* the blog description names posts and comments before users
C4_Witness ==
  /\ Extracted
  /\ words = BlogPhrases
  /\ entities = <<Str.user, Str.post, Str.comment>>

\* keywords listed under more than one lexicon entry
AllKeywords ==
  UNION {{entityKeywords[n].keywords[k] : k \in 1..Len(entityKeywords[n].keywords)} :
           n \in LexiconIndexes}

SharedKeywords ==
  {kw \in AllKeywords :
     Cardinality({n \in LexiconIndexes : includes(entityKeywords[n].keywords, kw)}) > 1}

\* the first lexicon entry that lists the keyword
FirstEntryListing(kw) ==
  CHOOSE n \in LexiconIndexes :
    /\ includes(entityKeywords[n].keywords, kw)
    /\ \A m \in LexiconIndexes : includes(entityKeywords[m].keywords, kw) => n <= m

AllAcceptedForms == UNION {AcceptedForms(kw) : kw \in AllKeywords}

\* the only words of the text that are forms of any keyword are forms of kw
OnlyMatchingWord(text, kw) ==
  LET hits == WholeWords(toLowerCase(text)) \cap AllAcceptedForms
  IN  hits # {} /\ hits \subseteq AcceptedForms(kw)

\* C5: a description whose only matching word is a keyword shared by two
\* lexicon entries gives exactly one entity, the earlier entry
C5_SharedKeywordOneEntity ==
  Extracted =>
    \A kw \in SharedKeywords :
      OnlyMatchingWord(description, kw) =>
        entities = <<entityKeywords[FirstEntryListing(kw)].name>>

toUpperCase(str) == [i \in 1..Len(str) |-> toUpperChar(str[i])]

\* C7: a lexicon entry matches exactly when one of its keywords is a whole
\* word of the lower-cased description in an accepted form; the returned
\* entities are matched entries; upper-casing the description changes nothing
C7_WholeWordMatch ==
  Extracted =>
    /\ LET matched == MatchedIndexes(description)
       IN  /\ \A n \in LexiconIndexes :
                AnyKeywordMatches(entityKeywords[n].keywords, toLowerCase(description))
                  <=> n \in matched
           /\ \A n \in LexiconIndexes :
                includes(entities, entityKeywords[n].name) => n \in matched
           /\ Cardinality(matched) <= 3 =>
                \A n \in matched : includes(entities, entityKeywords[n].name)
    /\ extractEntitiesFromDescription(toUpperCase(description)) = entities
    /\ extractEntitiesFromDescription(toLowerCase(description)) = entities

\* "user" occurs only inside "username": category alone was matched
C7_Witness ==
  /\ Extracted
  /\ words = <<Word.username, Word.categories, Word.categorys>>
  /\ entities = <<Str.category>>

\* ------------------------------------------- vocabulary of the claims C8-C9
LastLetter(str) == IF Len(str) = 0 THEN "" ELSE str[Len(str)]

\* C8: a trailing "y" is replaced by "ies"; otherwise a word ending in "s" is
\* returned unchanged; otherwise "s" is appended; the four documented plurals
C8_PluralizeRules ==
  plPc \in {"once", "twice"} =>
    /\ LastLetter(plWord) = "y" =>
         /\ Len(plOnce) = Len(plWord) + 2
         /\ SubSeq(plOnce, 1, Len(plWord) - 1) = SubSeq(plWord, 1, Len(plWord) - 1)
         /\ SubSeq(plOnce, Len(plWord), Len(plWord) + 2) = <<"i","e","s">>
    /\ LastLetter(plWord) = "s" => plOnce = plWord
    /\ LastLetter(plWord) \notin {"y", "s"} => plOnce = Append(plWord, "s")
    /\ plWord = Str.category => plOnce = Noun.categories
    /\ plWord = Str.inventory => plOnce = Noun.inventories
    /\ plWord = Noun.business => plOnce = Noun.business
    /\ plWord = Str.user => plOnce = Noun.users

\* category was pluralized
C8_Witness ==
  /\ plPc = "once"
  /\ plWord = Str.category
  /\ plOnce = Noun.categories

\* C9: pluralize(pluralize(x)) = pluralize(x) for every x, whatever its ending
C9_PluralizeIdempotent ==
  plPc = "twice" => plTwice = plOnce

\* a word of the ordinary ending class was pluralized twice
C9_Witness ==
  /\ plPc = "twice"
  /\ plWord = Str.user
  /\ plOnce = Noun.users
  /\ plTwice = Noun.users

\* ---------------------------------------------- vocabulary of the claim C10
\* generateCodeWithAI was called without the library or without an API key,
\* or something was raised inside it
AIFailed ==
  \/ ~OPENAI_AVAILABLE
  \/ ~Truthy(env.OPENAI_API_KEY)
  \/ aiRaised # <<>>

\* the errors main raises while it reads the metadata file
StartErrors ==
  {"ENOENT: no such file or directory, open metadata file",
   "SyntaxError: Unexpected token in JSON",
   "TypeError: Cannot read properties of undefined (reading match)"}

\* the run was started with both arguments and a metadata file holding an
\* issue body, and the file system refuses no call
Undisturbed == argv = 4 /\ metadataFile = "issue_body" /\ fsFault = <<>>

\* the paths this run has written or copied to
Written == {p \in DOMAIN files : files[p].origin # "earlier run"}

\* C10: no failure of the external service leaves generateCodeWithAI: with
\* the library missing, without an API key, or when constructing the client,
\* the request or reading the response raises, it returns null, the caller
\* writes the local template, and no exception reaches generateEntityFeature
\* (the only errors a run ends with are those of the file system and of
\* reading the metadata)
C10_NoFailurePropagates ==
  /\ thrown # <<>> => thrown[1] \in FsErrors \cup StartErrors
  /\ runPc = "failed" => thrown # <<>>
  /\ Undisturbed => (thrown = <<>> /\ runPc # "failed")
  /\ (aiPc = "returned" /\ AIFailed) => aiResult = <<>>
  /\ (runPc = "html" /\ aiResult = <<>>) =>
        files[ComponentPath(entityName)] = Template("component", entityName)
  /\ (runPc = "interface" /\ aiResult = <<>>) =>
        files[ServicePath(entityName)] = Template("service", entityName)

\* a request was sent, reading its response without choices raised, and the
\* component was written from the template
C10_Witness ==
  /\ runPc = "html"
  /\ Len(requests) > 0
  /\ aiRaised = <<"TypeError: cannot read properties of undefined (reading message)">>
  /\ files[ComponentPath(entityName)] = Template("component", entityName)

\* ---------------------------------------------------------------------- C11
\* the run has no usable Generative Assist: the key is unset or empty, or
\* the client library could not be loaded
NotConfigured == ~OPENAI_AVAILABLE \/ ~Truthy(env.OPENAI_API_KEY)

\* C11: when OPENAI_API_KEY is unset or empty, or the client library is
\* unavailable, then at every moment of the run no client has been
\* constructed and no request has been sent, generateCodeWithAI is never at
\* or past the construction step, and whenever it has returned it has
\* returned null without raising; this is so for every setting of
\* OPENAI_ENDPOINT and OPENAI_MODEL.
C11_NoClientNoRequest ==
  NotConfigured =>
    /\ clients = 0
    /\ requests = <<>>
    /\ aiPc \notin {"construct", "request", "awaiting"}
    /\ aiRaised = <<>>
    /\ aiPc = "returned" => aiResult = <<>>

\* a finished run with an empty key and with endpoint and model both set, in
\* which generateCodeWithAI was called for an entity and files were written
C11_Witness ==
  /\ env.OPENAI_API_KEY = <<"">>
  /\ OPENAI_AVAILABLE
  /\ Truthy(env.OPENAI_ENDPOINT)
  /\ Truthy(env.OPENAI_MODEL)
  /\ runPc = "done"
  /\ aiArgs # <<>>
  /\ clients = 0
  /\ requests = <<>>
  /\ DOMAIN files # {}

\* ---------------------------------------------------------------------- C19
\* the files written from a template literal
TemplateFiles == {p \in DOMAIN files : files[p].origin = "template"}

\* C19: every plural form that a template-written file carries for its
\* entity (array property, method name, API URL segment, CSS class), read
\* without regard to case, and the feature directory the file is written
\* under, equal pluralize(entity). The component template emits the method
\* name load<Entity>s, so for category the written component carries
\* "Categorys" and the statement is violated.
C19_EmittedPluralsProper ==
  \A p \in TemplateFiles :
    /\ p.dir = "src/app/features" => p.feature = pluralize(files[p].entityName)
    /\ \A f \in files[p].plurals :
         toLowerCase(f.form) = pluralize(files[p].entityName)

\* ---------------------------------------------------------------------- C20
\* the calls of the log that have not resolved yet
Outstanding == {i \in 1..Len(aiLog) : aiLog[i].status = "pending"}

\* call i was issued before call j in the order the code prescribes: entity
\* list order, and within an entity the component before the service
IssuedInOrder(i, j) ==
  \/ aiLog[i].idx < aiLog[j].idx
  \/ /\ aiLog[i].idx = aiLog[j].idx
     /\ aiLog[i].caller = "component"
     /\ aiLog[j].caller = "service"

\* the per-entity files whose content a call may produce
AssistedFiles == {p \in DOMAIN files : files[p].of \in {"component", "service"}}

\* C20: at every moment of a run at most one generateCodeWithAI call is
\* outstanding, and it is the last one issued; the calls are issued in
\* entity-list order, the component call of an entity before its service
\* call, each for the entity at its index; and whenever the description is
\* non-empty, a component or service file has been written by the run only
\* if the call issued for its path has resolved, to text or to null (in an
\* output directory the same generation has left, a file does not tell
\* which run wrote it, so the files are looked at in the other runs).
C20_AwaitedOneAtATime ==
  /\ Cardinality(Outstanding) <= 1
  /\ \A i \in Outstanding : i = Len(aiLog)
  /\ \A i, j \in 1..Len(aiLog) : i < j => IssuedInOrder(i, j)
  /\ \A i \in 1..Len(aiLog) :
       /\ aiLog[i].idx \in 1..Len(config.entities)
       /\ aiLog[i].entityName = config.entities[aiLog[i].idx]
       /\ (root # "generated" /\ aiLog[i].path \in Written) =>
            /\ aiLog[i].status = "resolved"
            /\ aiLog[i].value \in {"text", "null"}
  /\ (root # "generated" /\ TruthyText(config.description)) =>
       \A p \in AssistedFiles : \E i \in 1..Len(aiLog) : aiLog[i].path = p

\* a finished run over two entities with four calls, all resolved, some to
\* text and some to null, and both assisted files of the last entity written
C20_Witness ==
  /\ runPc = "done"
  /\ Len(config.entities) = 2
  /\ Len(aiLog) = 4
  /\ Outstanding = {}
  /\ \E i, j \in 1..4 : aiLog[i].value = "text" /\ aiLog[j].value = "null"
  /\ aiLog[4].path \in DOMAIN files
  /\ aiLog[3].caller = "component" /\ aiLog[4].caller = "service"

\* ---------------------------------------------------------------- C15, C16
Parsed == paPc = "parsed"

\* the same sections with every bold label written as a heading
AsHeadings(list) ==
  [i \in 1..Len(list) |->
     IF list[i].form = "bold" THEN [list[i] EXCEPT !.form = "heading"] ELSE list[i]]

\* C15: a request text that gives a field as a bold label followed by its
\* value parses to the same configuration as the text that gives the same
\* field as a heading followed by a value line. parseIssueBody searches for
\* the headings only, so a field given as a bold label keeps its default
\* (the description stays absent) and the statement is violated.
C15_ConventionsInterchangeable ==
  Parsed => parsed = parseIssueBody(RenderSections(AsHeadings(sections)))

\* every section is a heading with its value line, or the checkbox list
WellFormed(list) == \A i \in 1..Len(list) : list[i].form # "bold"

\* the orders n sections can be put in
SectionOrders(n) ==
  {f \in [1..n -> 1..n] : \A i, j \in 1..n : i # j => f[i] # f[j]}

\* the value line of the section of a field, <<>> when the list has none
ValueLine(list, field) ==
  IF \E i \in 1..Len(list) : list[i].field = field
  THEN <<(CHOOSE sec \in {list[i] : i \in 1..Len(list)} : sec.field = field).value>>
  ELSE <<>>

\* place of a feature name in the fixed vocabulary
VocabularyIndex(name) ==
  CHOOSE n \in 1..Len(FeatureVocabulary) : FeatureVocabulary[n].name = name

\* the feature names whose label stands behind a [X] or [x] marker in the
\* checkbox list
Ticked(list) ==
  LET boxes == IF ValueLine(list, "features") = <<>> THEN <<>>
               ELSE ValueLine(list, "features")[1]
  IN {FeatureVocabulary[n].name : n \in
        {n \in 1..Len(FeatureVocabulary) :
           \E i \in 1..(Len(boxes) - 1) :
             /\ boxes[i] \in {"- [X] ", "- [x] "}
             /\ boxes[i + 1] = FeatureVocabulary[n].label}}

\* C16: for a well-formed request text, every order of its sections parses
\* to the same version, styling, architecture, description and features;
\* version, styling and architecture are the value line of their section, or
\* "Angular 17 (Latest)", "CSS" and "Standalone Components" when the section
\* is absent; the description is the value line of its section or absent;
\* and the features list holds exactly the ticked features of the fixed
\* vocabulary, each once, in vocabulary order.
C16_OrderIndependentDefaulted ==
  (Parsed /\ WellFormed(sections)) =>
    /\ \A f \in SectionOrders(Len(sections)) :
         parseIssueBody(RenderSections([i \in 1..Len(sections) |-> sections[f[i]]]))
           = parsed
    /\ \A field \in {"version", "styling", "architecture"} :
         parsed[field] = IF ValueLine(sections, field) = <<>>
                         THEN DefaultConfig[field]
                         ELSE ValueLine(sections, field)[1]
    /\ DefaultConfig.styling = <<"CSS">>
    /\ DefaultConfig.version = <<"Angular", " ", "17", " ", "(Latest)">>
    /\ DefaultConfig.architecture = <<"Standalone", " ", "Components">>
    /\ parsed.description = ValueLine(sections, "description")
    /\ {parsed.features[n] : n \in 1..Len(parsed.features)} = Ticked(sections)
    /\ \A m, n \in 1..Len(parsed.features) :
         m < n => VocabularyIndex(parsed.features[m]) < VocabularyIndex(parsed.features[n])

\* three sections, the description first and the checkbox list ticking
\* Docker twice, parsed; the version section is absent
C16_Witness ==
  /\ Parsed
  /\ WellFormed(sections)
  /\ Len(sections) = 3
  /\ sections[1].field = "description"
  /\ sections[3].field = "styling"
  /\ parsed.features = <<"docker", "pwa">>
  /\ parsed.styling = <<"SCSS">>
  /\ parsed.version = DefaultConfig.version
  /\ parsed.description = <<Word.Users \o <<" ">> \o Word.categories>>

\* ---------------------------------------------------------------------- C14
\* the request text has no description section
NoDescriptionSection == ~includes(issueBody, Heading.description)

\* the per-entity files of generateEntityFeature for one entity
EntityFiles(e) ==
  { FeaturePath(pluralize(e), "components", e, "-list.component.ts"),
    FeaturePath(pluralize(e), "components", e, "-list.component.html"),
    FeaturePath(pluralize(e), "components", e, "-list.component.scss"),
    FeaturePath(pluralize(e), "services", e, ".service.ts"),
    FeaturePath(pluralize(e), "", e, ".module.ts"),
    InterfacePath(e) }

\* C14: for a request text with no description section nothing is raised
\* and the run never fails; parseIssueBody leaves the description absent,
\* the entity list becomes ["item"], no generateCodeWithAI call is made that
\* the run would wait for, and the finished run has made the directory
\* src/app/features/items and written, from their templates, the item list
\* component, the item service, the item module and the item interface.
C14_MissingDescriptionTolerated ==
  (NoDescriptionSection /\ Undisturbed) =>
    /\ thrown = <<>>
    /\ runPc # "failed"
    /\ aiPc = "idle" /\ aiLog = <<>>
    /\ runPc # "main" => config.description = <<>>
    /\ runPc \notin {"main", "generateAngularProject"} => config.entities = <<Str.item>>
    /\ runPc = "done" =>
         /\ FeatureDir(<<"i", "t", "e", "m", "s">>, "") \in dirs
         /\ FeatureDir(<<"i", "t", "e", "m", "s">>, "components") \in dirs
         /\ FeatureDir(<<"i", "t", "e", "m", "s">>, "services") \in dirs
         /\ EntityFiles(Str.item) \subseteq DOMAIN files
         /\ \A p \in EntityFiles(Str.item) :
              /\ files[p].origin = "template"
              /\ files[p].entityName = Str.item

\* a finished run on a request text without description section, with the
\* Generative Assist configured, in which no call was made
C14_Witness ==
  /\ NoDescriptionSection
  /\ includes(issueBody, Heading.styling)
  /\ runPc = "done"
  /\ OPENAI_AVAILABLE /\ Truthy(env.OPENAI_API_KEY)
  /\ aiLog = <<>>
  /\ files[ComponentPath(Str.item)] = Template("component", Str.item)

\* ---------------------------------------------------------------------- C17
\* the names of the directories directly below src/app/features
FeatureNames ==
  {d.feature : d \in {x \in dirs : x.dir = "src/app/features" /\ x.feature # <<>>}}

\* the path of a file of the feature P of entity e
InFeature(P, sub, e, suffix) ==
  [dir |-> "src/app/features", feature |-> P, sub |-> sub, entity |-> e,
   suffix |-> suffix]

\* C17: after a successful run, for every entity e of config.entities, with
\* P = pluralize(e), the directory src/app/features/P exists with its
\* components and services subdirectories, and the files
\* components/e-list.component.ts, .html and .scss, services/e.service.ts and
\* e.module.ts are in it, each written for e, and
\* src/app/core/interfaces/e.interface.ts is written; and the directories of
\* src/app/features are home and the plurals of the entities, no other, with
\* no file written under any other feature name.
C17_PerEntityEmission ==
  runPc = "done" =>
    /\ \A n \in 1..Len(config.entities) :
         LET e == config.entities[n]
             P == pluralize(e)
             emitted ==
               { InFeature(P, "components", e, "-list.component.ts"),
                 InFeature(P, "components", e, "-list.component.html"),
                 InFeature(P, "components", e, "-list.component.scss"),
                 InFeature(P, "services", e, ".service.ts"),
                 InFeature(P, "", e, ".module.ts"),
                 [dir |-> "src/app/core/interfaces", feature |-> <<>>, sub |-> "",
                  entity |-> e, suffix |-> ".interface.ts"] }
         IN /\ {[dir |-> "src/app/features", feature |-> P, sub |-> sub] :
                  sub \in {"", "components", "services"}} \subseteq dirs
            /\ emitted \subseteq DOMAIN files
            /\ \A p \in emitted : files[p].entityName = e
    /\ FeatureNames \ {Home} =
         {pluralize(config.entities[n]) : n \in 1..Len(config.entities)}
    /\ \A p \in DOMAIN files :
         p.dir = "src/app/features" =>
           p.feature \in FeatureNames /\ (p.feature = Home <=> p.entity = <<>>)

\* a finished run for user and category: the features are home, users and
\* categories, and the category service came from the Generative Assist
C17_Witness ==
  /\ runPc = "done"
  /\ config.entities = <<Str.user, Str.category>>
  /\ FeatureNames = {Home, Word.categories, <<"u", "s", "e", "r", "s">>}
  /\ files[ServicePath(Str.category)].origin = "ai"
  /\ files[ComponentPath(Str.user)].origin = "template"

\* ---------------------------------------------------------------------- C18
\* the routes of the written src/app/app-routing.module.ts
WrittenRoutes == files[StaticPath("src/app", "app-routing.module.ts")].uses

\* C18: after a successful run, src/app/app-routing.module.ts has, for every
\* entity of config.entities, a route whose path is pluralize(entity) and
\* that loads the module of that entity. The routes written are the
\* redirect of the empty path and the home route only, whatever the
\* entities are, so every generated entity module is left unreferenced and
\* the statement is violated.
C18_EntityModulesWired ==
  runPc = "done" =>
    \A n \in 1..Len(config.entities) :
      \E r \in 1..Len(WrittenRoutes) :
        /\ WrittenRoutes[r].path = pluralize(config.entities[n])
        /\ WrittenRoutes[r].loadChildren # ""

\* ----------------------------------------------------------------- C12, C13
\* every call of the run was made with the Generative Assist configured and
\* ended in the catch block
EveryCallFailed ==
  /\ ~NotConfigured
  /\ Len(aiLog) > 0
  /\ \A i \in 1..Len(aiLog) : aiLog[i].status = "resolved" /\ aiLog[i].value = "null"

\* C12: a finished run in which the Generative Assist is configured and
\* every call to it failed has written exactly the paths, with exactly the
\* contents, that the run without Generative Assist writes for the same
\* project name, request text and reference images.
C12_FallbackEquivalence ==
  (runPc = "done" /\ EveryCallFailed) =>
    files = TemplateOutput(projectName, issueBody, referenceImages)

\* a finished run for two entities whose four calls were all sent to the
\* service and all failed, with two reference images of which one was copied
C12_Witness ==
  /\ runPc = "done"
  /\ EveryCallFailed
  /\ Len(aiLog) = 4
  /\ Len(requests) = 4
  /\ Len(referenceImages) = 2
  /\ StaticPath("src/assets/images", "ui.png") \in DOMAIN files
  /\ StaticPath("src/assets/images", "mockup.svg") \notin DOMAIN files
  /\ config.entities = <<Str.user, Str.category>>
  /\ files[ServicePath(Str.category)] = Template("service", Str.category)

\* C13: a finished run with no Generative Assist configured has written
\* exactly the files that are a function of its project name, request text
\* and reference images: whatever else differs between two such runs (the
\* endpoint and model settings, an empty or unset key, the client library),
\* the paths and contents are the same, and no call left the run.
C13_TemplatePathDeterministic ==
  (runPc = "done" /\ NotConfigured) =>
    LET out == TemplateOutput(projectName, issueBody, referenceImages)
    IN /\ DOMAIN files = DOMAIN out
       /\ \A p \in DOMAIN out : files[p] = out[p]
       /\ requests = <<>>

\* a finished run without the client library, with a key, an endpoint and a
\* model set, for a description that names two entities
C13_Witness ==
  /\ runPc = "done"
  /\ ~OPENAI_AVAILABLE
  /\ Truthy(env.OPENAI_API_KEY) /\ Truthy(env.OPENAI_ENDPOINT) /\ Truthy(env.OPENAI_MODEL)
  /\ projectName = "audit-trail"
  /\ Len(referenceImages) = 2
  /\ config.entities = <<Str.user, Str.category>>
  /\ Cardinality(DOMAIN files) = 50

\* ---------------------------------------------------------------------- C21
\* C21: a run started on an output directory in which the project
\* directory, its subdirectories and files at the generated paths already
\* exist raises nothing and does not fail; when it has finished, every
\* generated path is on disk and none holds the content it had before the
\* run; and a run without Generative Assist started on the tree that the
\* same generation left there leaves exactly that tree, files and
\* directories.
C21_PreExistingTreeOverwritten ==
  /\ (root # "empty" /\ Undisturbed) =>
        /\ thrown = <<>>
        /\ runPc \notin {"failed", "usage"}
        /\ exitCode \in {<<>>, <<0>>}
  /\ (runPc = "done" /\ root # "empty") =>
        /\ GeneratedPaths(projectName, issueBody, referenceImages) \subseteq DOMAIN files
        /\ Written = DOMAIN files
  /\ (runPc = "done" /\ root = "generated" /\ NotConfigured) =>
        /\ files = PreExistingFiles(root, projectName, issueBody, referenceImages)
        /\ dirs = PreExistingDirs(root, issueBody)

\* a finished second run of the generation for user and category, with a
\* copied reference image, on the tree the first run left
C21_Witness ==
  /\ runPc = "done"
  /\ root = "generated"
  /\ NotConfigured
  /\ exitCode = <<0>>
  /\ config.entities = <<Str.user, Str.category>>
  /\ Len(referenceImages) = 2
  /\ files = TemplateOutput(projectName, issueBody, referenceImages)

\* ---------------------------------------------------------------------- C22
\* a call of the run that the file system made fail: a reference image that
\* could not be copied, or the refused mkdirSync or writeFileSync
CopyFailed == \E i \in 1..Len(referenceImages) : ~referenceImages[i].readable

\* C22: every failure of the file system during generation is fatal: an
\* error that is raised fails the run with exit status 1, the refused file
\* is never written, and a run finishes only if no mkdirSync, writeFileSync
\* or copyFileSync of it has failed.
C22_EveryFsFailureFatal ==
  /\ thrown # <<>> => (runPc = "failed" /\ exitCode = <<1>>)
  /\ (fsFault # <<>> /\ fsFault[1].kind = "write") => fsFault[1].target \notin Written
  /\ runPc = "done" =>
        /\ fsFault # <<>> => (fsFault[1].kind = "write"
                               /\ fsFault[1].target \notin DOMAIN files)
        /\ ~CopyFailed

\* ---------------------------------------------------------------------- C23
\* C23: the process ends with a non-zero exit status only when a call of
\* the file system has failed: whenever the status is not 0, an error of
\* the fs module was raised; a Generative Assist that is missing or fails,
\* a request text with missing fields, a metadata file without issue body
\* and missing command-line arguments all end with status 0.
C23_NonZeroOnlyOnFsFailure ==
  (exitCode # <<>> /\ exitCode # <<0>>) => (thrown # <<>> /\ thrown[1] \in FsErrors)

\* ---------------------------------------------------------------------- C24
\* the request text that differs from a given one in the version, the
\* styling and the project structure it selects, and in nothing else
Sibling(body) ==
  IF body[1] = Heading.version
  THEN Preamble \o SubSeq(body, Len(ModulePreamble) + 1, Len(body))
  ELSE ModulePreamble \o SubSeq(body, Len(Preamble) + 1, Len(body))

\* the components and the workspace file written from a template literal
Declared ==
  {p \in DOMAIN files :
     /\ files[p].origin \in {"skeleton", "template"}
     /\ files[p].of \in {"angular.json", "app.component.ts", "layout.component.ts",
                         "header.component.ts", "footer.component.ts",
                         "home.component.ts", "component"}}

C25_ParentDirectoryMade ==
  /\ thrown # <<"ENOENT: no such file or directory, open">>
  /\ \A p \in Written : dirname(p) \in dirs
  /\ runPc = "main" => (root = "empty" => dirs = {})

\* a finished run on an empty output directory for user and category: the
\* module, component, service and interface files of category, the home
\* component, the README and the Docker files are written
C25_Witness ==
  /\ runPc = "done"
  /\ root = "empty"
  /\ config.entities = <<Str.user, Str.category>>
  /\ {ComponentPath(Str.category), ServicePath(Str.category), InterfacePath(Str.category),
      FeaturePath(pluralize(Str.category), "", Str.category, ".module.ts"),
      HomePath("components/home", "home.component.ts"),
      StaticPath("src/app/layout/footer", "footer.component.scss"),
      StaticPath("", "README.md"), StaticPath("", "Dockerfile")} \subseteq Written
  /\ {FeatureDir(pluralize(Str.category), ""), Directory("src/app/core/interfaces", <<>>, ""),
      FeatureDir(Home, "components/home"), Directory("", <<>>, "")} \subseteq dirs

\* ---------------------------------------------------------------------- C26
\* the files of the run that were expanded from the component or the
\* service template
ImportingFiles ==
  {p \in DOMAIN files : files[p].origin = "template" /\ files[p].of \in {"component", "service"}}

\* C26: the per-entity files of a finished run are consistent with each
\* other: every relative import of a component or service written from its
\* template (service and interface, environment and interface), resolved
\* against the directory the file is written to, names a file the run has
\* written.
C26_ImportsResolve ==
  runPc = "done" =>
    \A p \in ImportingFiles :
      \A imp \in files[p].imports : Resolved(p, imp) \in DOMAIN files

\* ========================================================== modify-angular.js
\* ------------------------------------------------------------------- bounds
\* number of modify-angular.js processes started on one project
MaxCalls == 2

\* ---------------------------------------------------------- names and paths
AuthText == <<"a","u","t","h">>
UserText == <<"u","s","e","r">>
DashboardText == <<"d","a","s","h","b","o","a","r","d">>
NewFeature == <<"n","e","w","-","f","e","a","t","u","r","e">>

ModFeatureNames == {AuthText, UserText, DashboardText, NewFeature}

\* path.join of a directory, given by its segments below the project
\* directory, and a file name
ProjectFile(dir, name) == [dir |-> dir, name |-> name]

AngularJson == ProjectFile(<<>>, <<"angular.json">>)

PackageFile == ProjectFile(<<>>, <<"package.json">>)

RoutingFile(sourceRoot) == ProjectFile(sourceRoot \o <<"app">>, <<"app-routing.module.ts">>)

featureDirOf(sourceRoot, featureName) == sourceRoot \o <<"app", "features", featureName>>

\* fs.mkdirSync(dir, { recursive: true })
mkdirRecursive(tree, dir) ==
  [tree EXCEPT !.dirs = @ \cup {SubSeq(dir, 1, k) : k \in 0..Len(dir)}]

\* fs.writeFileSync(file, content)
writeFile(tree, file, content) ==
  [tree EXCEPT !.files = (file :> content) @@ @]

\* fs.existsSync(file)
existsSync(tree, file) == file \in DOMAIN tree.files

\* str.replace(/-([a-z])/g, g => g[1].toUpperCase())
RECURSIVE camelize(_)
camelize(str) ==
  IF Len(str) = 0 THEN str
  ELSE IF Len(str) >= 2 /\ str[1] = "-" /\ str[2] \in LowerCase
       THEN <<toUpperChar(str[2])>> \o camelize(SubSeq(str, 3, Len(str)))
       ELSE <<str[1]>> \o camelize(Tail(str))

capitalizeFirst(str) ==
  IF Len(str) = 0 THEN str ELSE <<toUpperChar(str[1])>> \o camelize(Tail(str))

\* ------------------------------------------------------ the text of a file
\* app-routing.module.ts is a sequence of pieces: a route entry, whose path
\* is written between single or double quotes, or any other text
Piece(text) == [kind |-> "text", text |-> text, path |-> <<>>, quote |-> ""]

RouteEntry(routePath, quote) ==
  [kind |-> "route", text |-> "", path |-> routePath, quote |-> quote]

\* the text path: 'featureName' occurs in the content
includesPath(content, featureName) ==
  \E i \in 1..Len(content) : content[i] = RouteEntry(featureName, "single")

ClosingBracket == Piece("];")

\* index of the first match of /(\];)/, 0 if there is none
FirstClosing(content) ==
  IF \E i \in 1..Len(content) : content[i] = ClosingBracket
  THEN CHOOSE i \in 1..Len(content) :
         /\ content[i] = ClosingBracket
         /\ \A j \in 1..(i - 1) : content[j] # ClosingBracket
  ELSE 0

\* content.replace(/(\];)/, ",\n" + newRoute + "\n$1")
insertRoute(content, featureName) ==
  LET i == FirstClosing(content)
  IN IF i = 0 THEN content
     ELSE SubSeq(content, 1, i - 1)
          \o <<Piece(","), RouteEntry(featureName, "single")>>
          \o SubSeq(content, i, Len(content))

\* ------------------------------------------------- detectAngularStructure
NotAngular == "Not an Angular project - angular.json not found"

UndefinedRead == "TypeError: Cannot read properties of undefined"

\* the result is [error, structure]: what is thrown, <<>> if nothing, and
\* what is returned
detectAngularStructure(tree) ==
  IF ~existsSync(tree, AngularJson)
  THEN [error |-> <<NotAngular>>, structure |-> <<>>]
  ELSE LET cfg == tree.files[AngularJson]
       IN IF cfg.projects = <<>>
          THEN [error |-> <<UndefinedRead>>, structure |-> <<>>]
          ELSE LET firstProject == cfg.projects[1]
               IN [error |-> <<>>,
                   structure |->
                     <<[isStandalone |-> firstProject.standalone # <<FALSE>>,
                        sourceRoot |-> IF firstProject.sourceRoot = <<>>
                                       THEN <<"src">>
                                       ELSE firstProject.sourceRoot[1]]>>]

\* ------------------------------------------------------- updateAppRouting
\* a step of addAngularComponent works on [tree, written, error]
updateAppRouting(st, featureName, structure) ==
  LET routingFile == RoutingFile(structure.sourceRoot)
  IN IF existsSync(st.tree, routingFile)
     THEN LET content == st.tree.files[routingFile].text
          IN IF ~includesPath(content, featureName)
             THEN [st EXCEPT !.tree = writeFile(@, routingFile,
                                      [kind |-> "routing",
                                       text |-> insertRoute(content, featureName)]),
                             !.written = Append(@, routingFile)]
             ELSE st
     ELSE st

\* ------------------------------------------------------ updatePackageJson
\* String.prototype.split('@') on a text given piece by piece
RECURSIVE splitAt(_)
splitAt(dep) ==
  IF \E i \in 1..Len(dep) : dep[i] = "@"
  THEN LET i == CHOOSE k \in 1..Len(dep) :
                  dep[k] = "@" /\ \A j \in 1..(k - 1) : dep[j] # "@"
       IN <<SubSeq(dep, 1, i - 1)>> \o splitAt(SubSeq(dep, i + 1, Len(dep)))
  ELSE <<dep>>

\* dep.startsWith('Python:')
startsWithPython(dep) == Len(dep) > 0 /\ dep[1] = "Python:"

Latest == <<"latest">>

\* one turn of the forEach: deps is packageJson.dependencies, <<>> when the
\* key is missing, else <<name |-> version>>; the result is [deps, error]
addDependency(acc, dep) ==
  IF acc.error # <<>> THEN acc
  ELSE IF dep # <<>> /\ ~startsWithPython(dep)
  THEN LET parts == splitAt(dep)
           name == parts[1]
           version == IF Len(parts) >= 2 THEN parts[2] ELSE <<>>
       IN IF name = <<>> THEN acc
          ELSE IF acc.deps = <<>>
          THEN [acc EXCEPT !.error = <<UndefinedRead>>]
          ELSE IF name \in DOMAIN acc.deps[1] /\ acc.deps[1][name] # <<>>
          THEN acc
          ELSE [acc EXCEPT !.deps =
                  <<(name :> (IF version # <<>> THEN version ELSE Latest))
                    @@ acc.deps[1]>>]
  ELSE acc

RECURSIVE addDependencies(_, _)
addDependencies(acc, dependencies) ==
  IF dependencies = <<>> THEN acc
  ELSE addDependencies(addDependency(acc, Head(dependencies)), Tail(dependencies))

updatePackageJson(st, dependencies) ==
  IF existsSync(st.tree, PackageFile)
  THEN LET packageJson == st.tree.files[PackageFile]
           r == addDependencies([deps |-> packageJson.dependencies, error |-> <<>>],
                                dependencies)
       IN IF r.error # <<>>
          THEN [st EXCEPT !.error = r.error]
          ELSE [st EXCEPT !.tree = writeFile(@, PackageFile,
                                     [kind |-> "package.json",
                                      dependencies |-> r.deps]),
                          !.written = Append(@, PackageFile)]
  ELSE st

\* ---------------------------------------------------- addAngularComponent
\* modifications.description || ''
DescriptionOf(mods) == IF mods.description = <<>> THEN <<>> ELSE mods.description[1]

featureNameOf(desc) ==
  IF includesText(toLowerCase(desc), AuthText) THEN AuthText
  ELSE IF includesText(toLowerCase(desc), UserText) THEN UserText
  ELSE IF includesText(toLowerCase(desc), DashboardText) THEN DashboardText
  ELSE NewFeature

ModuleFile(sourceRoot, featureName) ==
  ProjectFile(featureDirOf(sourceRoot, featureName), <<featureName, ".module.ts">>)

ComponentDir(sourceRoot, featureName) ==
  featureDirOf(sourceRoot, featureName) \o <<"components", featureName>>

ComponentFile(sourceRoot, featureName, ext) ==
  ProjectFile(ComponentDir(sourceRoot, featureName), <<featureName, ext>>)

ServicesDir(sourceRoot, featureName) ==
  featureDirOf(sourceRoot, featureName) \o <<"services">>

ServiceFile(sourceRoot, featureName) ==
  ProjectFile(ServicesDir(sourceRoot, featureName), <<featureName, ".service.ts">>)

Scaffold(kind, featureName, standalone) ==
  [kind |-> kind, class |-> capitalizeFirst(featureName), standalone |-> standalone]

write(st, file, content) ==
  [st EXCEPT !.tree = writeFile(@, file, content), !.written = Append(@, file)]

createAngularService(st, featureName, structure) ==
  LET servicesDir == ServicesDir(structure.sourceRoot, featureName)
      made == [st EXCEPT !.tree = mkdirRecursive(@, servicesDir)]
  IN write(made, ServiceFile(structure.sourceRoot, featureName),
           Scaffold("service", featureName, <<>>))

\* the statements of addAngularComponent after detectAngularStructure
addFeature(tree, mods, structure) ==
  LET featureName == featureNameOf(DescriptionOf(mods))
      sourceRoot == structure.sourceRoot
      featureDir == featureDirOf(sourceRoot, featureName)
      s0 == [tree |-> mkdirRecursive(tree, featureDir \o <<"components">>),
             written |-> <<>>, error |-> <<>>]
      s1 == write(s0, ModuleFile(sourceRoot, featureName),
                  Scaffold("module", featureName, <<>>))
      s2 == [s1 EXCEPT !.tree = mkdirRecursive(@, ComponentDir(sourceRoot, featureName))]
      s3 == write(s2, ComponentFile(sourceRoot, featureName, ".component.ts"),
                  Scaffold("component", featureName, <<structure.isStandalone>>))
      s4 == write(s3, ComponentFile(sourceRoot, featureName, ".component.html"),
                  Scaffold("html", featureName, <<>>))
      s5 == write(s4, ComponentFile(sourceRoot, featureName, ".component.scss"),
                  Scaffold("scss", featureName, <<>>))
      s6 == createAngularService(s5, featureName, structure)
      s7 == updateAppRouting(s6, featureName, structure)
  IN IF mods.dependencies # <<>> /\ Len(mods.dependencies[1]) > 0
     THEN updatePackageJson(s7, mods.dependencies[1])
     ELSE s7

\* addAngularComponent with the detection after the feature was added
addAngularComponentDetectLast(tree, mods) ==
  LET st == addFeature(tree, mods, [isStandalone |-> TRUE, sourceRoot |-> <<"src">>])
      found == detectAngularStructure(tree)
  IN IF found.error # <<>> THEN [st EXCEPT !.error = found.error] ELSE st

addAngularComponent(tree, mods) ==
  LET found == detectAngularStructure(tree)
  IN IF found.error # <<>>
     THEN [tree |-> tree, written |-> <<>>, error |-> found.error]
     ELSE addFeature(tree, mods, found.structure[1])

\* --------------------------------------------------- inputs of the process
Usage == "Usage: modify-angular.js <modifications.json>"

NotJson == "SyntaxError: Unexpected token in JSON"

\* a dependency text piece by piece: "@" is a piece of its own
Lodash == <<"lodash">>
LodashVersioned == <<"lodash", "@", "4.17.21">>
Rxjs == <<"rxjs", "@", "7.8.0">>
Scoped == <<"@", "scope/pkg", "@", "1.0.0">>
PythonLabel == <<"Python:", " flask">>
MomentNoVersion == <<"moment", "@">>

Mods(desc, deps) == [description |-> desc, dependencies |-> deps]

ModificationSet ==
  { Mods(<<>>, <<>>),
    Mods(<<<<"A","u","t","h","o","r","s">>>>, << <<>> >>),
    Mods(<<<<"A","u","t","h","o","r","s">>>>, << <<Lodash, Rxjs>> >>),
    Mods(<<<<"U","s","e","r"," ","d","a","s","h","b","o","a","r","d">>>>, << <<Scoped>> >>),
    Mods(<<<<"D","a","s","h","b","o","a","r","d">>>>, << <<PythonLabel, <<>>, MomentNoVersion>> >>),
    Mods(<<<<"R","e","p","o","r","t","s">>>>, << <<LodashVersioned>> >>) }

AngularConfig(projects) == [kind |-> "angular.json", projects |-> projects]

AngularProject(standalone, sourceRoot) ==
  [standalone |-> standalone, sourceRoot |-> sourceRoot]

Routing(text) == [kind |-> "routing", text |-> text]

\* the routes generate-angular.js writes
GeneratedRoutes ==
  <<Piece("const routes: Routes = ["), RouteEntry(<<>>, "single"), Piece(","),
    RouteEntry(<<"h","o","m","e">>, "single"), ClosingBracket, Piece("@NgModule")>>

RoutesWith(quote) ==
  <<Piece("const routes: Routes = ["), RouteEntry(<<>>, "single"), Piece(","),
    RouteEntry(AuthText, quote), ClosingBracket, Piece("@NgModule")>>

RoutesUnclosed ==
  <<Piece("export const routes: Routes = ["), RouteEntry(<<"h","o","m","e">>, "single"),
    Piece("]")>>

PackageJson(deps) == [kind |-> "package.json", dependencies |-> deps]

SomeDependencies == (Lodash :> <<"3.0.0">>) @@ (<<"zone.js">> :> <<"0.13.0">>)

BaseDirs == {<<>>, <<"src">>, <<"src", "app">>}

Tree(ds, fs) == [dirs |-> ds, files |-> fs]

SrcRouting == RoutingFile(<<"src">>)

ProjectTrees ==
  { Tree({<<>>}, <<>>),
    Tree(BaseDirs, (SrcRouting :> Routing(GeneratedRoutes))
                   @@ (PackageFile :> PackageJson(<<SomeDependencies>>))),
    Tree(BaseDirs, (AngularJson :> AngularConfig(<<AngularProject(<<FALSE>>, << <<"src">> >>)>>))
                   @@ (SrcRouting :> Routing(GeneratedRoutes))
                   @@ (PackageFile :> PackageJson(<< <<>> >>))),
    Tree(BaseDirs, (AngularJson :> AngularConfig(<<AngularProject(<<>>, <<>>)>>))
                   @@ (SrcRouting :> Routing(RoutesWith("single")))
                   @@ (PackageFile :> PackageJson(<<SomeDependencies>>))),
    Tree(BaseDirs, (AngularJson :> AngularConfig(<<AngularProject(<<FALSE>>, <<>>)>>))
                   @@ (SrcRouting :> Routing(RoutesWith("double")))
                   @@ (PackageFile :> PackageJson(<<>>))),
    Tree(BaseDirs, (AngularJson :> AngularConfig(<<AngularProject(<<TRUE>>, <<>>)>>))),
    Tree(BaseDirs, (AngularJson :> AngularConfig(<<AngularProject(<<FALSE>>, <<>>)>>))
                   @@ (SrcRouting :> Routing(RoutesUnclosed))
                   @@ (PackageFile :> PackageJson(<<SomeDependencies>>))),
    Tree(BaseDirs \cup {<<"web">>, <<"web", "app">>},
         (AngularJson :> AngularConfig(<<AngularProject(<<>>, << <<"web">> >>)>>))
         @@ (RoutingFile(<<"web">>) :> Routing(GeneratedRoutes))
         @@ (SrcRouting :> Routing(GeneratedRoutes))
         @@ (PackageFile :> PackageJson(<<SomeDependencies>>))),
    Tree(BaseDirs, (AngularJson :> AngularConfig(<<>>))
                   @@ (SrcRouting :> Routing(GeneratedRoutes))) }

\* -------------------------------------------------------------- the process
InitModify ==
  /\ ExtractIdle
  /\ InflectIdle
  /\ ParseIdle
  /\ RunIdle
  /\ RequestIdle
  /\ project \in ProjectTrees
  /\ projectBefore = project
  /\ modArgv = 0
  /\ modifications = <<>>
  /\ modPc = "idle"
  /\ modExit = <<>>
  /\ modError = <<>>
  /\ modWritten = <<>>
  /\ modCalls = 0

\* node modify-angular.js [modifications.json] in the project directory
StartModify ==
  /\ modPc \in {"idle", "exited"}
  /\ modCalls < MaxCalls
  /\ \/ modArgv' = 2 /\ modifications' = <<>>
     \/ modArgv' = 3 /\ modifications' = <<>>
     \/ modArgv' = 3 /\ \E m \in ModificationSet : modifications' = <<m>>
  /\ projectBefore' = project
  /\ modPc' = "main"
  /\ modExit' = <<>>
  /\ modError' = <<>>
  /\ modWritten' = <<>>
  /\ modCalls' = modCalls + 1
  /\ UNCHANGED project
  /\ UNCHANGED <<exVars, plVars, paVars, runVars, mrVars>>

Exited(tree, written, error) ==
  /\ project' = tree
  /\ modWritten' = written
  /\ modError' = error
  /\ modExit' = IF error = <<>> THEN <<0>> ELSE <<1>>
  /\ modPc' = "exited"

\* main, up to the exit of the process
ModifyMain ==
  /\ modPc = "main"
  /\ IF modArgv < 3 THEN Exited(project, <<>>, <<Usage>>)
     ELSE IF modifications = <<>> THEN Exited(project, <<>>, <<NotJson>>)
     ELSE LET r == addAngularComponent(project, modifications[1])
          IN Exited(r.tree, r.written, r.error)
  /\ UNCHANGED <<projectBefore, modArgv, modifications, modCalls>>
  /\ UNCHANGED <<exVars, plVars, paVars, runVars, mrVars>>

NextModify == StartModify \/ ModifyMain

SpecModify == InitModify /\ [][NextModify]_vars

\* ================================================ claims on modify-angular.js
\* ----------------------------------------------- vocabulary of C27, C28, C29
\* the process has run addAngularComponent and has exited
Applied == modPc = "exited" /\ modArgv >= 3 /\ modifications # <<>>

\* the feature the call was about
AppliedFeature == featureNameOf(DescriptionOf(modifications[1]))

\* the routing file addAngularComponent looks for in a tree with angular.json
RoutingFileOf(tree) ==
  RoutingFile(detectAngularStructure(tree).structure[1].sourceRoot)

Detected(tree) == detectAngularStructure(tree).error = <<>>

\* the route entries for a path in a routing text, in either quoting
RoutesFor(content, routePath) ==
  {i \in 1..Len(content) : content[i].kind = "route" /\ content[i].path = routePath}

\* text of the routing file of a tree, <<>> when there is none
RoutingText(tree) ==
  IF existsSync(tree, RoutingFileOf(tree))
  THEN tree.files[RoutingFileOf(tree)].text
  ELSE <<>>

\* ---------------------------------------------------------------------- C27
\* applying addAngularComponent once more with the same modifications
\* leaves the routing file as it is
RoutingIdempotent ==
  (Applied /\ Detected(project)) =>
     LET again == addAngularComponent(project, modifications[1]).tree
     IN /\ existsSync(again, RoutingFileOf(project))
             = existsSync(project, RoutingFileOf(project))
        /\ RoutingText(again) = RoutingText(project)

\* C27: updateAppRouting is idempotent per feature: a second
\* addAngularComponent with the same modifications leaves
\* app-routing.module.ts as the first left it, the route of the feature
\* occurs at most once in the file, and the routing file is not written
\* when it already holds a route with that path or does not exist.
C27_RouteAddedAtMostOnce ==
  /\ RoutingIdempotent
  /\ (Applied /\ Detected(project)) =>
        /\ Cardinality(RoutesFor(RoutingText(project), AppliedFeature)) <= 1
        /\ (\/ ~existsSync(projectBefore, RoutingFileOf(project))
            \/ RoutesFor(RoutingText(projectBefore), AppliedFeature) # {})
           => ~includes(modWritten, RoutingFileOf(project))

\* the route is there twice: the file held it between double quotes
C27_DuplicateRoute ==
  /\ Applied
  /\ Detected(project)
  /\ Cardinality(RoutesFor(RoutingText(project), AppliedFeature)) = 2
  /\ includes(modWritten, RoutingFileOf(project))

\* ---------------------------------------------------------------------- C28
\* C28: in a directory without angular.json addAngularComponent fails with
\* the Not an Angular project error before it makes a directory or writes
\* a file: the project tree after the call is the tree before it, and the
\* process exits with a non-zero status.
C28_NotAngularLeavesTree ==
  (Applied /\ ~existsSync(projectBefore, AngularJson)) =>
     /\ modError = <<NotAngular>>
     /\ project = projectBefore
     /\ modWritten = <<>>
     /\ modExit # <<>> /\ modExit[1] # 0

C28_Witness ==
  /\ Applied
  /\ ~existsSync(projectBefore, AngularJson)
  /\ existsSync(projectBefore, SrcRouting)
  /\ modifications[1].dependencies # <<>>
  /\ modError = <<NotAngular>>
  /\ project = projectBefore
  /\ modExit = <<1>>

\* ---------------------------------------------------------------------- C29
\* an entry of the form name or name@version, read as the claim reads it:
\* the version follows the last @ that is not the first character
VersionMark(dep) ==
  IF \E i \in 2..Len(dep) : dep[i] = "@"
  THEN CHOOSE i \in 2..Len(dep) :
         dep[i] = "@" /\ \A j \in (i + 1)..Len(dep) : dep[j] # "@"
  ELSE 0

RequestedName(dep) ==
  IF VersionMark(dep) = 0 THEN dep ELSE SubSeq(dep, 1, VersionMark(dep) - 1)

RequestedVersion(dep) ==
  IF VersionMark(dep) = 0 \/ VersionMark(dep) = Len(dep)
  THEN Latest
  ELSE SubSeq(dep, VersionMark(dep) + 1, Len(dep))

PackageEntry(dep) == dep # <<>> /\ ~startsWithPython(dep)

\* the dependencies of package.json in a tree that has them
DependenciesOf(tree) == tree.files[PackageFile].dependencies[1]

HasDependencies(tree) ==
  existsSync(tree, PackageFile) /\ tree.files[PackageFile].dependencies # <<>>

\* updatePackageJson was called and returned
PackageUpdated ==
  /\ Applied
  /\ modError = <<>>
  /\ modifications[1].dependencies # <<>>
  /\ Len(modifications[1].dependencies[1]) > 0
  /\ HasDependencies(projectBefore)

\* C29: updating dependencies adds every requested package: after
\* updatePackageJson each entry name or name@version, scoped names
\* included, whose name was no key of the dependencies is a key with the
\* requested version, or latest when none was given, and a key that was
\* present keeps its version.
C29_EveryRequestedPackageAdded ==
  PackageUpdated =>
    \A i \in 1..Len(modifications[1].dependencies[1]) :
      LET dep == modifications[1].dependencies[1][i]
          name == RequestedName(dep)
      IN PackageEntry(dep) =>
           /\ name \in DOMAIN DependenciesOf(project)
           /\ DependenciesOf(project)[name] =
                IF name \in DOMAIN DependenciesOf(projectBefore)
                THEN DependenciesOf(projectBefore)[name]
                ELSE RequestedVersion(dep)

\* the unscoped entries are added as claimed
UnscopedEntriesAdded ==
  PackageUpdated =>
    \A i \in 1..Len(modifications[1].dependencies[1]) :
      LET dep == modifications[1].dependencies[1][i]
          name == RequestedName(dep)
      IN (PackageEntry(dep) /\ dep[1] # "@") =>
           /\ name \in DOMAIN DependenciesOf(project)
           /\ DependenciesOf(project)[name] =
                IF name \in DOMAIN DependenciesOf(projectBefore)
                THEN DependenciesOf(projectBefore)[name]
                ELSE RequestedVersion(dep)

\* ============================================== parse-modification-request.js
\* ------------------------------------------------------------------- bounds
\* most parts a modification request text is assembled from
MaxParts == 2

\* ------------------------------------------------- the regular expressions
\* A request text is a sequence of pieces: a bold label, a list label such
\* as Create:, one of the characters : # - * and the blank, the line feed
\* NL, or a word that holds none of these.

\* the i flag: the pieces that differ from a literal in case only
IgnoreCase(literal) ==
  CASE literal = "**New Dependencies**" -> {literal, "**new dependencies**"}
    [] literal = "Create:" -> {literal, "create:"}
    [] literal = "Python:" -> {literal, "python:"}
    [] OTHER -> {literal}

\* the pieces that begin with two asterisks
BoldPieces ==
  {"**Target Repository**", "**Project Type**", "**Modification Type**",
   "**Description**", "**Files to Modify/Create**", "**New Dependencies**",
   "**new dependencies**", "**Notes**"}

\* the class [:\s]
ColonOrSpace == {":"} \cup Whitespace

\* the first position from i on whose piece is outside the class, Len + 1
\* if there is none
ClassRunEnd(text, i, class) ==
  IF \E j \in i..Len(text) : text[j] \notin class
  THEN CHOOSE j \in i..Len(text) :
         /\ text[j] \notin class
         /\ \A k \in i..(j - 1) : text[k] \in class
  ELSE Len(text) + 1

Largest(S) == CHOOSE x \in S : \A y \in S : y <= x

Smallest(S) == CHOOSE x \in S : \A y \in S : x <= y

\* /<label>[:\s]*([^\n]+)/i tried with the label at position i: the group
\* in a one-element sequence, <<>> when there is no match.  The class takes
\* all it can; when it runs to the end of the text it gives back its last
\* piece that is no line feed, and the group is that piece.
MatchFieldAt(text, i) ==
  LET j == ClassRunEnd(text, i + 1, ColonOrSpace)
      given == {k \in (i + 1)..Len(text) : text[k] # "NL"}
  IN IF j <= Len(text) THEN <<SubSeq(text, j, LineEnd(text, j))>>
     ELSE IF given = {} THEN <<>>
     ELSE << <<text[Largest(given)]>> >>

\* issueBody.match(/<label>[:\s]*([^\n]+)/i): the leftmost match
MatchField(text, label) ==
  LET starts == {i \in 1..Len(text) :
                   text[i] \in IgnoreCase(label) /\ MatchFieldAt(text, i) # <<>>}
  IN IF starts = {} THEN <<>> ELSE MatchFieldAt(text, Smallest(starts))

\* the lookahead (?=\n\*\*|$) at position n, without the m flag
Ahead(text, n) ==
  \/ n = Len(text) + 1
  \/ /\ n < Len(text)
     /\ text[n] = "NL"
     /\ \/ text[n + 1] \in BoldPieces
        \/ n + 2 <= Len(text) /\ text[n + 1] = "*" /\ text[n + 2] = "*"

\* the ends of the group ([^#]+?) that starts at position p
GroupEnds(text, p) ==
  {q \in p..Len(text) : (\A t \in p..q : text[t] # "#") /\ Ahead(text, q + 1)}

\* /<label>[:\s]*\n([^#]+?)(?=\n\*\*|$)/is tried with the label at position
\* i.  The line feed of the pattern is one of the class run; the later ones
\* are tried first; the group is lazy and ends at the first position the
\* lookahead accepts.
MatchBlockAt(text, i) ==
  LET j == ClassRunEnd(text, i + 1, ColonOrSpace)
      feeds == {p \in (i + 1)..(j - 1) :
                  text[p] = "NL" /\ GroupEnds(text, p + 1) # {}}
  IN IF feeds = {} THEN <<>>
     ELSE LET p == Largest(feeds)
          IN <<SubSeq(text, p + 1, Smallest(GroupEnds(text, p + 1)))>>

MatchBlock(text, label) ==
  LET starts == {i \in 1..Len(text) :
                   text[i] \in IgnoreCase(label) /\ MatchBlockAt(text, i) # <<>>}
  IN IF starts = {} THEN <<>> ELSE MatchBlockAt(text, Smallest(starts))

BulletMarks == {"-", "*"}

\* [-*]\s+.+\n? tried at position a: the position of its last piece, 0 when
\* there is no match.  The white space takes all it can, line feeds
\* included; the dot takes no line feed.  When the white space runs to the
\* end of the text it gives back its last blank to the dot.
ItemEnd(text, a) ==
  IF a + 1 > Len(text) \/ text[a] \notin BulletMarks \/ text[a + 1] \notin Whitespace
  THEN 0
  ELSE LET b == ClassRunEnd(text, a + 1, Whitespace)
           blanks == {k \in (a + 2)..Len(text) : text[k] = " "}
           e == IF b <= Len(text) THEN LineEnd(text, b)
                ELSE IF blanks = {} THEN 0 ELSE Largest(blanks)
       IN IF e = 0 THEN 0
          ELSE IF e < Len(text) /\ text[e + 1] = "NL" THEN e + 1 ELSE e

\* (?:[-*]\s+.+\n?)+ from position a, where one item matches: the position
\* of the last piece of the last item
RECURSIVE ItemsEnd(_, _)
ItemsEnd(text, a) ==
  LET e == ItemEnd(text, a)
  IN IF e < Len(text) /\ ItemEnd(text, e + 1) # 0 THEN ItemsEnd(text, e + 1) ELSE e

\* /<label>[^\n]*\n((?:[-*]\s+.+\n?)+)/i tried with the label at position i
MatchListAt(text, i) ==
  LET n == LineEnd(text, i) + 1
  IN IF n < Len(text) /\ ItemEnd(text, n + 1) # 0
     THEN <<SubSeq(text, n + 1, ItemsEnd(text, n + 1))>>
     ELSE <<>>

MatchList(text, label) ==
  LET starts == {i \in 1..Len(text) :
                   text[i] \in IgnoreCase(label) /\ MatchListAt(text, i) # <<>>}
  IN IF starts = {} THEN <<>> ELSE MatchListAt(text, Smallest(starts))

\* text.split('\n')
RECURSIVE splitLines(_)
splitLines(text) ==
  IF \E i \in 1..Len(text) : text[i] = "NL"
  THEN LET e == LineEnd(text, 1)
       IN <<SubSeq(text, 1, e)>> \o splitLines(SubSeq(text, e + 2, Len(text)))
  ELSE <<text>>

\* line.replace(/^[-*]\s+/, '')
stripBullet(line) ==
  IF Len(line) >= 2 /\ line[1] \in BulletMarks /\ line[2] \in Whitespace
  THEN SubSeq(line, ClassRunEnd(line, 2, Whitespace), Len(line))
  ELSE line

\* line.replace(/^[-*]\s+/, '').trim()
cleanLine(line) == trim(stripBullet(line))

\* line.match(/^(Python|Angular|npm):/i)
EcosystemLabels == IgnoreCase("Python:") \cup {"Angular:", "npm:"}

labelLine(line) ==
  \/ Len(line) >= 1 /\ line[1] \in EcosystemLabels
  \/ Len(line) >= 2 /\ line[1] \in {"Python", "Angular", "npm"} /\ line[2] = ":"

\* the callback of filter: line.length > 0, and for the dependencies
\* && !line.match(/^(Python|Angular|npm):/i)
keepLine(line, dependency) ==
  Len(line) > 0 /\ (dependency => ~labelLine(line))

\* Array.prototype.filter
RECURSIVE filterLines(_, _)
filterLines(arr, dependency) ==
  IF arr = <<>> THEN <<>>
  ELSE (IF keepLine(Head(arr), dependency) THEN <<Head(arr)>> ELSE <<>>)
       \o filterLines(Tail(arr), dependency)

\* text.split('\n').map(line => line.replace(/^[-*]\s+/, '').trim())
cleanLines(text) ==
  LET lines == splitLines(text)
  IN [i \in 1..Len(lines) |-> cleanLine(lines[i])]

\* -------------------------------------------------- parseModificationRequest
Defaults ==
  [target_repo |-> <<>>, project_type |-> <<>>, modification_type |-> <<>>,
   description |-> <<>>, files_to_create |-> <<>>, files_to_modify |-> <<>>,
   dependencies |-> <<>>]

\* a group of a match trimmed, the default for no match
Trimmed(match) == IF match # <<>> THEN trim(match[1]) ELSE <<>>

parseModificationRequest(body) ==
  LET filesMatch == MatchBlock(body, "**Files to Modify/Create**")
      createMatch == IF filesMatch # <<>> THEN MatchList(filesMatch[1], "Create:")
                     ELSE <<>>
      modifyMatch == IF filesMatch # <<>> THEN MatchList(filesMatch[1], "Modify:")
                     ELSE <<>>
      depsMatch == MatchBlock(body, "**New Dependencies**")
  IN [target_repo |-> Trimmed(MatchField(body, "**Target Repository**")),
      project_type |-> Trimmed(MatchField(body, "**Project Type**")),
      modification_type |-> Trimmed(MatchField(body, "**Modification Type**")),
      description |-> Trimmed(MatchBlock(body, "**Description**")),
      files_to_create |-> IF createMatch # <<>>
                          THEN filterLines(cleanLines(createMatch[1]), FALSE)
                          ELSE <<>>,
      files_to_modify |-> IF modifyMatch # <<>>
                          THEN filterLines(cleanLines(modifyMatch[1]), FALSE)
                          ELSE <<>>,
      dependencies |-> IF depsMatch # <<>>
                       THEN filterLines(cleanLines(depsMatch[1]), TRUE)
                       ELSE <<>>]

\* ------------------------------------- inputs of parseModificationRequest
RequestParts ==
  { <<"**Target Repository**", ":", " ", "owner/repo">>,
    <<"**Project Type**", ":", " ", "Angular", " ">>,
    <<"**Modification Type**", ":", " ">>,
    <<"**Description**", "NL", "Add", " ", "login", "NL", "and", " ", "logout">>,
    <<"**Description**", ":", " ", "Add", " ", "login">>,
    <<"**Files to Modify/Create**", "NL", "Create:", "NL",
      "-", " ", "login.component.ts", "NL", "*", " ", "auth.service.ts", "NL",
      "Modify:", " ", "(existing)", "NL", "-", " ", "app.module.ts", "NL", "-", " ">>,
    <<"**New Dependencies**", "NL", "-", " ", "lodash", "NL", "Python:", "NL",
      "NL", "*", " ", "rxjs@7.8.0", "NL", "-", " ", "python:", " ", "flask">>,
    <<"**new dependencies**", ":", "NL", "npm", ":", "NL", "jwt-decode", " ">>,
    <<"**New Dependencies**", "NL", " ", " ", "-", " ", "lodash">>,
    <<"**Notes**", "NL", "#", "#", " ", "Checklist">>,
    <<"See", " ", "#", "12">> }

\* the parts, each on a line of its own
RECURSIVE RenderParts(_)
RenderParts(parts) ==
  IF Len(parts) = 0 THEN <<>>
  ELSE IF Len(parts) = 1 THEN parts[1]
  ELSE parts[1] \o <<"NL">> \o RenderParts(Tail(parts))

PartLists == SeqsUpTo(RequestParts, MaxParts)

InitRequest ==
  /\ ExtractIdle
  /\ InflectIdle
  /\ ParseIdle
  /\ RunIdle
  /\ ModifyIdle
  /\ mrParts \in PartLists
  /\ mrBody = RenderParts(mrParts)
  /\ mrResult = <<>>
  /\ mrPc = "input"

ParseModificationRequest ==
  /\ mrPc = "input"
  /\ mrResult' = <<parseModificationRequest(mrBody)>>
  /\ mrPc' = "parsed"
  /\ UNCHANGED <<mrParts, mrBody>>
  /\ UNCHANGED <<exVars, plVars, paVars, runVars, moVars>>

NextRequest == ParseModificationRequest

SpecRequest == InitRequest /\ [][NextRequest]_vars

\* ------------------------------------ claims on parse-modification-request.js
\* ---------------------------------------------------------------------- C30
ListFields == {"files_to_create", "files_to_modify", "dependencies"}

\* the bold label of the section a field is read from
LabelOfField ==
  [target_repo |-> "**Target Repository**",
   project_type |-> "**Project Type**",
   modification_type |-> "**Modification Type**",
   description |-> "**Description**",
   files_to_create |-> "**Files to Modify/Create**",
   files_to_modify |-> "**Files to Modify/Create**",
   dependencies |-> "**New Dependencies**"]

SectionAbsent(body, field) ==
  \A i \in 1..Len(body) : body[i] \notin IgnoreCase(LabelOfField[field])

\* the element begins with - or * and white space
StartsWithBullet(line) ==
  Len(line) >= 2 /\ line[1] \in BulletMarks /\ line[2] \in Whitespace

\* a record with all seven fields, and the default where the section of a
\* field is absent
SevenFieldsWithDefaults ==
  mrPc = "parsed" =>
    /\ Len(mrResult) = 1
    /\ DOMAIN mrResult[1] = DOMAIN Defaults
    /\ \A field \in DOMAIN Defaults :
         SectionAbsent(mrBody, field) => mrResult[1][field] = Defaults[field]

\* no element of a list is empty or a label line of the dependencies
NoEmptyOrLabelElement ==
  mrPc = "parsed" =>
    \A field \in ListFields :
      \A i \in 1..Len(mrResult[1][field]) :
        /\ mrResult[1][field][i] # <<>>
        /\ field = "dependencies" => ~labelLine(mrResult[1][field][i])

\* C30: parseModificationRequest is total on strings: it returns a record
\* with all seven fields, a field whose bold-label section is absent keeps
\* its default, and no element of the three lists is empty, starts with a
\* bullet marker or, for the dependencies, is a Python:, Angular: or npm:
\* label line.
C30_TotalWithCleanLists ==
  /\ SevenFieldsWithDefaults
  /\ NoEmptyOrLabelElement
  /\ mrPc = "parsed" =>
       \A field \in ListFields :
         \A i \in 1..Len(mrResult[1][field]) :
           ~StartsWithBullet(mrResult[1][field][i])

\* the indented bullet of the dependencies is returned with its marker
C30_BulletKept ==
  /\ mrPc = "parsed"
  /\ mrParts = << <<"**New Dependencies**", "NL", " ", " ", "-", " ", "lodash">> >>
  /\ mrResult[1].dependencies = << <<"-", " ", "lodash">> >>

====
